---- MODULE Spec2Model ----
(***************************************************************************)
(* A model of jupyterlab-claude-code: the host-side WebSocket dispatcher   *)
(* (handlers.py), the notebook bridge (yjs_bridge.py) and the request      *)
(* correlator of the tool process (client.py, described by the             *)
(* specification only).                                                    *)
(*                                                                         *)
(* JSON values are records [t |-> <json type>, v |-> <text>], python       *)
(* dicts are functions from their keys, exceptions are records             *)
(* [type, msg] where msg is what str(e) gives.                             *)
(***************************************************************************)
EXTENDS Naturals, Integers, Sequences, FiniteSets, TLC

VARIABLES
    \* ---- handlers.py: the host dispatcher --------------------------------
    clients,        \* ClaudeCodeWebSocketHandler.clients: the open connections
    handled,        \* number of on_message calls so far (capped by MaxMessages)
    written,        \* number of response envelopes written so far
    lastConn,       \* connection of the last callback (open, on_message, on_close)
    lastMessage,    \* the frame it received (NoMessage for open and on_close)
    wire,           \* the frames that callback wrote, in order
    lastOutcome,    \* what the handler it invoked did (NoOutcome if none ran)
    lastEscaped,    \* exception that left _handle_request (NoExc if none)
    raisedBefore,   \* a handler raised in an earlier on_message call
    malformedOn,    \* connections that received invalid JSON since open()
    live,           \* the connections the server has opened and not closed
    statusReply,    \* body of the last GET of the status endpoint, if it
                    \* was the last thing to happen
    \* ---- client.py: the request correlator of the tool process ----------
    linkState,      \* ConnectionState of the Transport Link
    nextId,         \* the counter the next request id is taken from
    pending,        \* the pending table: ids of the PendingRequests
    outbox,         \* requests on the link, not yet answered by the host
    inbox,          \* responses on the link, not yet (or already) delivered
    answers,        \* every response the host has produced
    resolved,       \* per id, the resolutions its caller saw, in order
    sentConnected,  \* ids whose request was sent while Connected
    corrEvent,      \* the last event the correlator processed
    \* ---- yjs_bridge.py: notebook mutations, one bridge call per thread ---
    store,          \* the contents manager: path -> saved list of cells
    calls,          \* per thread, the bridge call it is running
    begun,          \* number of bridge calls started (capped by MaxOps)
    initialCells,   \* the cells the notebook was created with
    insertsDone,    \* insert calls that returned success
    othersDone,     \* update, delete and move calls that returned success
    \* ---- yjs_bridge.py: execute_code, one run ----------------------------
    run,            \* the execute_code call: where it is, msg_id, outputs, result
    iopub,          \* what get_iopub_msg has delivered to the run, in order
    \* ---- cell operations called one at a time ----------------------------
    lastCall,       \* the last call: its arguments, the store before, the result
    made,           \* number of calls made so far (capped by MaxOps)
    \* ---- the host's IO loop serving one connection ------------------------
    arrived,        \* frames received on the link, not yet given to on_message
    serving,        \* the request whose on_message call the IO loop is inside
    answered,       \* the response envelopes written, in order
    abandoned,      \* ids of the requests whose caller has given up
    \* ---- tools/*.py: the tools of the tool process ------------------------
    lastTool,       \* the last tool invocation: arguments, request, result
    \* ---- server.py: run_server -------------------------------------------
    server          \* where run_server is, its client, the tools registered,
                    \* how serving ended and whether close_client was called

dispVars == <<clients, handled, written, lastConn, lastMessage, wire,
              lastOutcome, lastEscaped, raisedBefore, malformedOn,
              live, statusReply>>

corrVars == <<linkState, nextId, pending, outbox, inbox, answers, resolved,
              sentConnected, corrEvent>>

nbVars == <<store, calls, begun, initialCells, insertsDone, othersDone>>

exVars == <<run, iopub>>

cellVars == <<lastCall, made>>

serveVars == <<arrived, serving, answered, abandoned>>

toolVars == <<lastTool>>

srvVars == <<server>>

vars == <<dispVars, corrVars, nbVars, exVars, cellVars, serveVars, toolVars,
          srvVars>>

\* what the actions of one component leave alone
notDisp == <<corrVars, nbVars, exVars, cellVars, serveVars, toolVars,
              srvVars>>
notCorr == <<dispVars, nbVars, exVars, cellVars, serveVars, toolVars,
              srvVars>>
notNb == <<dispVars, corrVars, exVars, cellVars, serveVars, toolVars,
            srvVars>>
notEx == <<dispVars, corrVars, nbVars, cellVars, serveVars, toolVars,
            srvVars>>
notCell == <<dispVars, corrVars, exVars, serveVars, toolVars,
              srvVars>>
notServe == <<dispVars, corrVars, nbVars, cellVars, toolVars,
               srvVars>>
notTool == <<dispVars, corrVars, nbVars, exVars, cellVars, serveVars,
             srvVars>>
notSrv == <<dispVars, corrVars, nbVars, exVars, cellVars, serveVars>>

----------------------------------------------------------------------------
(* Bounds *)

MaxMessages == 3
MaxCalls == 2
MaxOps == 2
MaxEvents == 3

----------------------------------------------------------------------------
(* JSON values and python helpers *)

JStr(s) == [t |-> "string", v |-> s]
JNull == [t |-> "null", v |-> ""]
JNum(s) == [t |-> "number", v |-> s]
JArr(s) == [t |-> "array", v |-> s]
JObj(s) == [t |-> "object", v |-> s]

\* python truthiness of a JSON value: None, "", 0 and [] are falsy
Truthy(x) ==
    CASE x.t = "null" -> FALSE
      [] x.t = "string" -> x.v /= ""
      [] x.t = "number" -> x.v /= "0"
      [] x.t = "array" -> x.v /= ""
      [] OTHER -> TRUE

\* lists and dicts are unhashable: using one as a dict key raises TypeError
Hashable(x) == x.t \notin {"array", "object"}

\* str(x) as an f-string renders it
PyStr(x) == IF x.t = "null" THEN "None" ELSE x.v

\* dict.get(key, default)
DictGet(d, k, default) == IF k \in DOMAIN d THEN d[k] ELSE default

NoExc == [type |-> "none", msg |-> ""]
Exc(ty, m) == [type |-> ty, msg |-> m]

----------------------------------------------------------------------------
(* handlers.py *)

Conns == {"c1", "c2"}

\* the keys of the handlers table of _handle_request
Actions == {"list_notebooks", "get_active_notebook", "get_notebook_content",
            "get_cell", "insert_cell", "update_cell", "delete_cell",
            "move_cell", "execute_cell", "execute_code", "interrupt_kernel",
            "get_kernel_status", "list_variables", "get_cell_outputs",
            "clear_outputs"}

\* the handlers that are coroutine functions (async def): every method of
\* YjsBridge is a plain def, so calling one returns its dict, not an awaitable
AsyncHandlers == {}

\* what a call handler(params, notebook_id) does: it returns a dict or raises
Return(d) == [kind |-> "return", value |-> JObj(d), exc |-> NoExc]
Raise(e) == [kind |-> "raise", value |-> JNull, exc |-> e]
NoOutcome == [kind |-> "none", value |-> JNull, exc |-> NoExc]

HandlerOutcomes ==
    {Return(d) : d \in {"d1", "d2"}}
    \cup {Raise(Exc("ValueError", "cell_index required")),
          Raise(Exc("IndexError", "Cell index 9 out of range"))}

\* `await x`: a value that is not awaitable raises TypeError at the await
Await(action, outcome) ==
    IF outcome.kind = "return" /\ action \notin AsyncHandlers
    THEN Raise(Exc("TypeError",
                   "object dict can't be used in 'await' expression"))
    ELSE outcome

\* _send_response: the frame json.dumps produces
send_response(request_id, data) ==
    [id |-> request_id, type |-> "response", success |-> TRUE, data |-> data]

\* _send_error: request_id defaults to None, which json.dumps writes as null
send_error(message, request_id) ==
    [id |-> request_id, type |-> "response", success |-> FALSE,
     error |-> message]

\* the result of running a callback: frames written, exception left uncaught,
\* the handler outcome observed (NoOutcome when no handler was called)
Ran(frames, exc, outcome) ==
    [sent |-> frames, raised |-> exc, outcome |-> outcome]

\* mutant: the early return without the error envelope
missing_action_Silent(request_id) ==
    Ran(<<>>, NoExc, NoOutcome)

\* _handle_request, lines 52-54: no action, or a falsy one
missing_action(request_id) ==
    Ran(<<send_error("Missing action", request_id)>>, NoExc, NoOutcome)

\* mutant: the error envelope sent without the request id
unknown_action_NoId(action, request_id) ==
    Ran(<<send_error("Unknown action: " \o PyStr(action), JNull)>>,
        NoExc, NoOutcome)

\* _handle_request, lines 83-86: the table has no such key
unknown_action(action, request_id) ==
    Ran(<<send_error("Unknown action: " \o PyStr(action), request_id)>>,
        NoExc, NoOutcome)

\* mutant: no try/except around the handler call
invoke_NoCatch(action, request_id, outcome) ==
    LET result == Await(action, outcome)
    IN  IF result.kind = "return"
        THEN Ran(<<send_response(request_id, result.value)>>, NoExc, outcome)
        ELSE Ran(<<>>, result.exc, outcome)

\* _handle_request, lines 88-93: call the handler, await what it returned,
\* envelope the result; any Exception becomes an error envelope
invoke(action, request_id, outcome) ==
    LET result == Await(action, outcome)
    IN  IF result.kind = "return"
        THEN Ran(<<send_response(request_id, result.value)>>, NoExc, outcome)
        ELSE Ran(<<send_error(result.exc.msg, request_id)>>, NoExc, outcome)

\* _handle_request(data): uuid is the value uuid.uuid4() draws, outcome what
\* the handler does if it is called
handle_request(data, uuid, outcome) ==
    IF data.t /= "object"
    THEN Ran(<<>>, Exc("AttributeError", "object has no attribute 'get'"),
             NoOutcome)
    ELSE
    LET request_id == DictGet(data.v, "id", JStr(uuid))
        action == DictGet(data.v, "action", JNull)
    IN  IF ~Truthy(action)
        THEN missing_action(request_id)
        ELSE IF ~Hashable(action)
        THEN Ran(<<>>, Exc("TypeError", "unhashable type"), NoOutcome)
        ELSE IF ~(action.t = "string" /\ action.v \in Actions)
        THEN unknown_action(action, request_id)
        ELSE invoke(action.v, request_id, outcome)

\* json.loads(message)
JsonLoads(message) ==
    IF message.wellformed
    THEN [ok |-> TRUE, value |-> message.value]
    ELSE [ok |-> FALSE, value |-> JNull]

\* mutant: invalid JSON dropped without a word
on_message_DropsInvalid(message, uuid, outcome) ==
    LET parsed == JsonLoads(message)
    IN  IF ~parsed.ok
        THEN Ran(<<>>, NoExc, NoOutcome)
        ELSE
        LET r == handle_request(parsed.value, uuid, outcome)
        IN  IF r.raised /= NoExc
            THEN Ran(r.sent \o <<send_error(r.raised.msg, JNull)>>, NoExc,
                     r.outcome)
            ELSE r

\* on_message(message)
on_message(message, uuid, outcome) ==
    LET parsed == JsonLoads(message)
    IN  IF ~parsed.ok
        THEN Ran(<<send_error("Invalid JSON", JNull)>>, NoExc, NoOutcome)
        ELSE
        LET r == handle_request(parsed.value, uuid, outcome)
        IN  IF r.raised /= NoExc
            THEN Ran(r.sent \o <<send_error(r.raised.msg, JNull)>>, NoExc,
                     r.outcome)
            ELSE r

----------------------------------------------------------------------------
(* The frames a peer may send *)

Uuids == {"uuid-1", "uuid-2"}

IdValues == {JStr("r1"), JStr("r2"), JNum("7"), JNull}

\* the table treats every key alike: requests name three of the known actions
RequestedActions == {"list_notebooks", "insert_cell", "execute_code"}

ActionValues ==
    {JStr(a) : a \in RequestedActions}
    \cup {JStr("bogus"), JStr(""), JNull, JNum("5"), JArr("x")}

Dicts ==
    {[k \in {"id", "action"} |-> IF k = "id" THEN i ELSE a] :
        i \in IdValues, a \in ActionValues}
    \cup {[k \in {"action"} |-> a] : a \in ActionValues}
    \cup {[k \in {"id"} |-> i] : i \in IdValues}

Messages ==
    {[wellformed |-> TRUE, value |-> [t |-> "object", v |-> d]] : d \in Dicts}
    \cup {[wellformed |-> TRUE, value |-> JArr("x")],
          [wellformed |-> FALSE, value |-> JNull]}

NoMessage == [wellformed |-> FALSE, value |-> JStr("nothing received")]

\* the frame open() writes
Greeting == [type |-> "connected", status |-> "ok"]

\* the handler a frame reaches, if any: the outcome is drawn only for those
Reaches(m) ==
    /\ m.wellformed
    /\ m.value.t = "object"
    /\ "action" \in DOMAIN m.value.v
    /\ m.value.v["action"].t = "string"
    /\ m.value.v["action"].v \in Actions

NeedsUuid(m) ==
    m.wellformed /\ m.value.t = "object" /\ "id" \notin DOMAIN m.value.v

----------------------------------------------------------------------------
(* Actions of the dispatcher *)

\* open(), line 32: clients.add(self)
add(registry, self) == registry \cup {self}

\* mutant: on_close leaves the connection in the registry
discard_Keeps(registry, self) == registry

\* on_close(), line 116: clients.discard(self)
discard(registry, self) == registry \ {self}

NoReply == [status |-> "none", connected_clients |-> 0 - 1]

\* StatusHandler.get(): the body it finishes the request with
StatusHandler_get(registry) ==
    [status |-> "ok", connected_clients |-> Cardinality(registry)]

DispInit ==
    /\ clients = {}
    /\ handled = 0
    /\ written = 0
    /\ lastConn = "none"
    /\ lastMessage = NoMessage
    /\ wire = <<>>
    /\ lastOutcome = NoOutcome
    /\ lastEscaped = NoExc
    /\ raisedBefore = FALSE
    /\ malformedOn = {}
    /\ live = {}
    /\ statusReply = NoReply

\* open(): the connection is registered and greeted
Open(c) ==
    /\ c \notin live
    /\ live' = live \cup {c}
    /\ statusReply' = NoReply
    /\ clients' = add(clients, c)
    /\ lastConn' = c
    /\ lastMessage' = NoMessage
    /\ wire' = <<Greeting>>
    /\ lastOutcome' = NoOutcome
    /\ lastEscaped' = NoExc
    /\ raisedBefore' = (raisedBefore \/ lastOutcome.kind = "raise")
    /\ malformedOn' = malformedOn \ {c}
    /\ UNCHANGED <<handled, written>>
    /\ UNCHANGED notDisp

\* on_close(): the connection is dropped from the registry
OnClose(c) ==
    /\ c \in live
    /\ live' = live \ {c}
    /\ statusReply' = NoReply
    /\ clients' = discard(clients, c)
    /\ lastConn' = c
    /\ lastMessage' = NoMessage
    /\ wire' = <<>>
    /\ lastOutcome' = NoOutcome
    /\ lastEscaped' = NoExc
    /\ raisedBefore' = (raisedBefore \/ lastOutcome.kind = "raise")
    /\ malformedOn' = malformedOn \ {c}
    /\ UNCHANGED <<handled, written>>
    /\ UNCHANGED notDisp

\* on_message(message) on an open connection
OnMessage(c) ==
    /\ c \in live
    /\ handled < MaxMessages
    /\ \E m \in Messages :
       \E u \in (IF NeedsUuid(m) THEN Uuids ELSE {"uuid-1"}) :
       \E o \in (IF Reaches(m) THEN HandlerOutcomes ELSE {NoOutcome}) :
         LET hr == IF JsonLoads(m).ok
                   THEN handle_request(JsonLoads(m).value, u, o)
                   ELSE Ran(<<>>, NoExc, NoOutcome)
             r == on_message(m, u, o)
         IN  /\ wire' = r.sent
             /\ handled' = handled + 1
             /\ written' = written + Len(r.sent)
             /\ lastConn' = c
             /\ lastMessage' = m
             /\ lastOutcome' = r.outcome
             /\ lastEscaped' = hr.raised
             /\ raisedBefore' = (raisedBefore \/ lastOutcome.kind = "raise")
             /\ malformedOn' = IF JsonLoads(m).ok THEN malformedOn
                                ELSE malformedOn \cup {c}
    /\ statusReply' = NoReply
    /\ UNCHANGED <<clients, live>>
    /\ UNCHANGED notDisp

\* GET on the status endpoint
StatusGet ==
    /\ statusReply' = StatusHandler_get(clients)
    /\ UNCHANGED <<clients, handled, written, lastConn, lastMessage, wire,
                   lastOutcome, lastEscaped, raisedBefore, malformedOn, live>>
    /\ UNCHANGED notDisp

----------------------------------------------------------------------------
(* Claims about the dispatcher, stated on the last on_message call *)

\* the last callback was on_message and its frame parsed to a JSON object
LastIsObject ==
    /\ lastMessage /= NoMessage
    /\ lastMessage.wellformed
    /\ lastMessage.value.t = "object"

LastData == lastMessage.value.v

LastHasId == LastIsObject /\ "id" \in DOMAIN LastData

\* the id the response must carry: the request's, or the uuid drawn for it
LastIdOk(frame) ==
    IF "id" \in DOMAIN LastData
    THEN frame.id = LastData["id"]
    ELSE frame.id \in {JStr(u) : u \in Uuids}

\* C1: a request whose action is in the closed action set and whose handler
\* returns is answered by one envelope with success=true, data equal to the
\* returned value and id equal to the request's id.
C1_SuccessEnvelope ==
    (LastHasId /\ Reaches(lastMessage) /\ lastOutcome.kind = "return")
        => wire = <<[id |-> LastData["id"], type |-> "response",
                     success |-> TRUE, data |-> lastOutcome.value]>>

\* C5 as claimed: a request naming an action outside the closed action set
\* invokes no handler and is answered with its id, success=false and
\* error = "Unknown action: " followed by the action name.
C5_UnknownActionAnyName ==
    (LastHasId /\ "action" \in DOMAIN LastData
       /\ LastData["action"].t = "string"
       /\ LastData["action"].v \notin Actions)
        => /\ lastOutcome = NoOutcome
           /\ wire = <<[id |-> LastData["id"], type |-> "response",
                        success |-> FALSE,
                        error |-> "Unknown action: " \o LastData["action"].v]>>

\* C5 amended: the same for a non-empty action name outside the set; an
\* empty name is answered "Missing action", also without invoking a handler.
C5_UnknownAction ==
    (LastIsObject /\ "action" \in DOMAIN LastData
       /\ LastData["action"].t = "string"
       /\ LastData["action"].v \notin Actions)
        => /\ lastOutcome = NoOutcome
           /\ lastEscaped = NoExc
           /\ Len(wire) = 1
           /\ wire[1].type = "response"
           /\ wire[1].success = FALSE
           /\ LastIdOk(wire[1])
           /\ wire[1].error =
                 IF LastData["action"].v = ""
                 THEN "Missing action"
                 ELSE "Unknown action: " \o LastData["action"].v

C5_Witness ==
    /\ LastHasId
    /\ "action" \in DOMAIN LastData
    /\ LastData["action"] = JStr("bogus")
    /\ wire = <<send_error("Unknown action: bogus", LastData["id"])>>

\* C6: when a handler raises, the dispatcher answers with success=false and
\* the failure's message under the request's id, nothing leaves
\* _handle_request, the connection stays registered, and a request handled
\* after a failure is answered like any other.
C6_HandlerFailureCaught ==
    /\ lastOutcome.kind = "raise"
         => /\ Len(wire) = 1
            /\ wire[1].type = "response"
            /\ wire[1].success = FALSE
            /\ wire[1].error = lastOutcome.exc.msg
            /\ LastIdOk(wire[1])
            /\ lastEscaped = NoExc
            /\ lastConn \in clients
    /\ (raisedBefore /\ lastMessage /= NoMessage)
         => (Len(wire) = 1 /\ lastConn \in clients)

C6_Witness ==
    /\ raisedBefore
    /\ lastOutcome.kind = "raise"
    /\ LastHasId
    /\ wire = <<send_error(lastOutcome.exc.msg, LastData["id"])>>

\* C7: every inbound message is answered by exactly one response envelope,
\* a success envelope carrying data or an error envelope carrying error.
C7_ExactlyOneResponse ==
    /\ written = handled
    /\ lastMessage /= NoMessage
         => /\ Len(wire) = 1
            /\ wire[1].type = "response"
            /\ IF wire[1].success
               THEN DOMAIN wire[1] = {"id", "type", "success", "data"}
               ELSE DOMAIN wire[1] = {"id", "type", "success", "error"}

C7_Witness ==
    /\ handled = MaxMessages
    /\ written = MaxMessages
    /\ lastMessage /= NoMessage
    /\ ~lastMessage.wellformed
    /\ Len(wire) = 1

\* C8: every response envelope carries a string id, the id of the request
\* that caused it (stated for requests that do not themselves carry an id
\* of another JSON type).
C8_ResponseIdIsRequestId ==
    (lastMessage /= NoMessage
       /\ ~(LastHasId /\ LastData["id"].t /= "string"))
        => \A i \in 1..Len(wire) :
              /\ wire[i].id.t = "string"
              /\ LastHasId => wire[i].id = LastData["id"]

\* an on_message call took this step
MessageStep == handled' = handled + 1

\* the registry and the status endpoint's count of it
RegistryIsLive ==
    /\ clients = live
    /\ statusReply /= NoReply
        => statusReply = [status |-> "ok",
                          connected_clients |-> Cardinality(live)]

\* C29: the registry holds exactly the connections opened and not yet
\* closed, the status endpoint reports its size as connected_clients, and
\* no on_message call, whatever handler it runs, changes the registry.
C29_RegistryTracksConnections ==
    /\ []RegistryIsLive
    /\ [][MessageStep => clients' = clients]_vars

\* the status was read after two opens, a request and a close
C29_Witness ==
    /\ statusReply = [status |-> "ok", connected_clients |-> 1]
    /\ live = {"c2"}
    /\ lastConn = "c1"
    /\ lastMessage = NoMessage
    /\ handled > 0

\* what on_message does with invalid JSON, and with a request after it
InvalidJsonStep ==
    /\ (MessageStep /\ ~lastMessage'.wellformed)
        => /\ wire' = <<send_error("Invalid JSON", JNull)>>
           /\ clients' = clients
           /\ lastConn' \in clients'
    /\ (MessageStep /\ lastConn' \in malformedOn /\ Reaches(lastMessage'))
        => /\ lastOutcome' /= NoOutcome
           /\ Len(wire') = 1
           /\ lastConn' \in clients'

\* C26: a payload that is not valid JSON is answered with one error envelope
\* and leaves the connection in the registry; a request that arrives later
\* on that connection reaches its handler and is answered.
C26_InvalidJsonKeepsLink == [][InvalidJsonStep]_vars

\* a request was dispatched on a connection that had received invalid JSON
C26_Witness ==
    /\ lastConn \in malformedOn
    /\ Reaches(lastMessage)
    /\ lastOutcome /= NoOutcome
    /\ Len(wire) = 1

----------------------------------------------------------------------------
(* client.py: the Transport Link and the Request Correlator, as sections   *)
(* 3, 4.1, 4.2 and 5 of the specification describe them.                   *)

Ids == 1..MaxCalls

Payloads == {"p1", "p2"}

\* a Response envelope as the correlator sees it
Response(id, success, payload) ==
    [id |-> id, success |-> success, payload |-> payload]

\* the ways a call ends
Data(payload) == [kind |-> "data", payload |-> payload]
UpstreamError(error) == [kind |-> "UpstreamError", payload |-> error]
Timeout == [kind |-> "Timeout", payload |-> ""]
ConnectionLost == [kind |-> "ConnectionLost", payload |-> ""]
LinkClosed == [kind |-> "LinkClosed", payload |-> ""]

\* the pending table and the resolutions delivered so far
Table(entries, seen) == [pending |-> entries, resolved |-> seen]

\* resolve or reject the slot of one entry and remove the entry
Settle(table, id, how) ==
    Table(table.pending \ {id},
          [table.resolved EXCEPT ![id] = Append(@, how)])

\* mutant: the slot is resolved and the entry left in the table
on_response_KeepEntry(table, resp) ==
    IF resp.id \in table.pending
    THEN Table(table.pending,
               [table.resolved EXCEPT ![resp.id] = Append(@, Data(resp.payload))])
    ELSE table

\* mutant: a response is delivered to its caller whether or not it is pending
on_response_NoLookup(table, resp) ==
    Table(table.pending \ {resp.id},
          [table.resolved EXCEPT ![resp.id] = Append(@, Data(resp.payload))])

\* 4.2, a Response envelope arrives: a matching entry is removed and
\* resolved with data or failed with UpstreamError; any other id is dropped
on_response(table, resp) ==
    IF resp.id \in table.pending
    THEN Settle(table, resp.id,
                IF resp.success THEN Data(resp.payload)
                ELSE UpstreamError(resp.payload))
    ELSE table

\* 4.2, the deadline of a request elapses: the entry, if still there, is
\* removed and failed with Timeout
on_timeout(table, id) ==
    IF id \in table.pending THEN Settle(table, id, Timeout) ELSE table

\* mutant: the callers are failed and the table is not cleared
on_link_lost_NoClear(table) ==
    Table(table.pending,
          [i \in Ids |-> IF i \in table.pending
                         THEN Append(table.resolved[i], ConnectionLost)
                         ELSE table.resolved[i]])

\* 4.1/4.2, the link is lost: every pending entry is failed with
\* ConnectionLost and the table is cleared
on_link_lost(table) ==
    Table({},
          [i \in Ids |-> IF i \in table.pending
                         THEN Append(table.resolved[i], ConnectionLost)
                         ELSE table.resolved[i]])

\* mutant: every request is given the same id
new_id_Constant(counter) == 1

\* 4.2, call(): the id is the value of a counter that only grows
new_id(counter) == counter

\* mutant: the entry of a request that could not be sent stays in the table
call_KeepEntry(table, id, connected) ==
    LET registered == Table(table.pending \cup {id}, table.resolved)
    IN  IF connected
        THEN registered
        ELSE Table(registered.pending,
                   [registered.resolved EXCEPT ![id] = Append(@, LinkClosed)])

\* 4.2, call(): the PendingRequest is registered and the Link asked to send;
\* 4.1, send() fails with LinkClosed if not Connected, and by section 7 the
\* entry is removed before that failure reaches the caller
call(table, id, connected) ==
    LET registered == Table(table.pending \cup {id}, table.resolved)
    IN  IF connected
        THEN registered
        ELSE Table(registered.pending \ {id},
                   [registered.resolved EXCEPT ![id] = Append(@, LinkClosed)])

NoEvent == [kind |-> "none", id |-> 0]
Event(kind, id) == [kind |-> kind, id |-> id]

CorrIdle ==
    /\ linkState = "Disconnected"
    /\ nextId = 1
    /\ pending = {}
    /\ outbox = {}
    /\ inbox = {}
    /\ answers = {}
    /\ resolved = [i \in Ids |-> <<>>]
    /\ sentConnected = {}
    /\ corrEvent = NoEvent

\* connect(): Disconnected -> Connecting
Connect ==
    /\ linkState = "Disconnected"
    /\ linkState' = "Connecting"
    /\ corrEvent' = Event("connect", 0)
    /\ UNCHANGED <<nextId, pending, outbox, inbox, answers, resolved,
                   sentConnected>>
    /\ UNCHANGED notCorr

\* the handshake succeeds: Connecting -> Connected
Connected ==
    /\ linkState = "Connecting"
    /\ linkState' = "Connected"
    /\ corrEvent' = Event("connected", 0)
    /\ UNCHANGED <<nextId, pending, outbox, inbox, answers, resolved,
                   sentConnected>>
    /\ UNCHANGED notCorr

\* the handshake is rejected: connect() fails with ConnectionError
ConnectFailed ==
    /\ linkState = "Connecting"
    /\ linkState' = "Disconnected"
    /\ corrEvent' = Event("connect failed", 0)
    /\ UNCHANGED <<nextId, pending, outbox, inbox, answers, resolved,
                   sentConnected>>
    /\ UNCHANGED notCorr

\* call(): a fresh id; while Connected the entry is registered and the
\* request sent, otherwise send fails with LinkClosed and no entry remains
Call ==
    /\ nextId <= MaxCalls
    /\ LET id == new_id(nextId)
           connected == linkState = "Connected"
           t == call(Table(pending, resolved), id, connected)
       IN  /\ nextId' = nextId + 1
           /\ corrEvent' = Event("call", id)
           /\ pending' = t.pending
           /\ resolved' = t.resolved
           /\ outbox' = IF connected THEN outbox \cup {id} ELSE outbox
           /\ sentConnected' = IF connected THEN sentConnected \cup {id}
                                ELSE sentConnected
    /\ UNCHANGED <<linkState, inbox, answers>>
    /\ UNCHANGED notCorr

\* the host answers a request it received
HostRespond(id) ==
    /\ id \in outbox
    /\ \E ok \in BOOLEAN, p \in Payloads :
         /\ inbox' = inbox \cup {Response(id, ok, p)}
         /\ answers' = answers \cup {Response(id, ok, p)}
    /\ outbox' = outbox \ {id}
    /\ corrEvent' = Event("host", id)
    /\ UNCHANGED <<linkState, nextId, pending, resolved, sentConnected>>
    /\ UNCHANGED notCorr

\* a Response envelope is delivered; the link may deliver it again later
Receive(resp) ==
    /\ linkState = "Connected"
    /\ resp \in inbox
    /\ LET t == on_response(Table(pending, resolved), resp)
       IN  /\ pending' = t.pending
           /\ resolved' = t.resolved
    /\ \E again \in BOOLEAN :
         inbox' = IF again THEN inbox ELSE inbox \ {resp}
    /\ corrEvent' = Event("response", resp.id)
    /\ UNCHANGED <<linkState, nextId, outbox, answers, sentConnected>>
    /\ UNCHANGED notCorr

\* the timer of request id fires (it may fire after the entry is gone)
DeadlineElapsed(id) ==
    /\ id < nextId
    /\ id \in sentConnected
    /\ LET t == on_timeout(Table(pending, resolved), id)
       IN  /\ pending' = t.pending
           /\ resolved' = t.resolved
    /\ corrEvent' = Event("timeout", id)
    /\ UNCHANGED <<linkState, nextId, outbox, inbox, answers, sentConnected>>
    /\ UNCHANGED notCorr

\* close(): Connected -> Closing
Close ==
    /\ linkState = "Connected"
    /\ linkState' = "Closing"
    /\ corrEvent' = Event("close", 0)
    /\ UNCHANGED <<nextId, pending, outbox, inbox, answers, resolved,
                   sentConnected>>
    /\ UNCHANGED notCorr

\* the link is lost (close() completing, peer disconnect, I/O failure):
\* the listeners are notified, what was on the link is gone
LinkLost ==
    /\ linkState \in {"Connected", "Closing"}
    /\ linkState' = "Disconnected"
    /\ LET t == on_link_lost(Table(pending, resolved))
       IN  /\ pending' = t.pending
           /\ resolved' = t.resolved
    /\ outbox' = {}
    /\ inbox' = {}
    /\ corrEvent' = Event("link lost", 0)
    /\ UNCHANGED <<nextId, answers, sentConnected>>
    /\ UNCHANGED notCorr

CorrNext ==
    \/ Connect
    \/ Connected
    \/ ConnectFailed
    \/ Call
    \/ \E id \in Ids : HostRespond(id)
    \/ \E resp \in inbox : Receive(resp)
    \/ \E id \in Ids : DeadlineElapsed(id)
    \/ Close
    \/ LinkLost

----------------------------------------------------------------------------
(* Claims about the correlator *)

\* the resolutions a request sent while Connected may end with
Allowed(id) ==
    {Data(r.payload) : r \in {x \in answers : x.id = id /\ x.success}}
    \cup {UpstreamError(r.payload) :
            r \in {x \in answers : x.id = id /\ ~x.success}}
    \cup {Timeout, ConnectionLost}

\* an entry is in the table until its one resolution, and gone after it
OwnedUntilResolved ==
    \A id \in sentConnected :
        IF id \in pending
        THEN resolved[id] = <<>>
        ELSE Len(resolved[id]) = 1 /\ resolved[id][1] \in Allowed(id)

\* C2: every request sent while Connected is resolved exactly once, with the
\* matching response's data, UpstreamError, Timeout or ConnectionLost: never
\* twice under any interleaving of response, deadline and link loss, and
\* never zero times since its deadline elapses.
C2_ResolvedExactlyOnce ==
    /\ []OwnedUntilResolved
    /\ \A id \in Ids :
          (id \in pending) ~> (id \notin pending /\ Len(resolved[id]) = 1)

C2_Witness ==
    /\ sentConnected = Ids
    /\ pending = {}
    /\ resolved[1] = <<Timeout>>
    /\ resolved[2] \in {<<Data(p)>> : p \in Payloads}
    /\ corrEvent = Event("response", 1)

\* C3: when the link is lost, every PendingRequest in the table at that
\* instant is rejected with ConnectionLost, that being its only resolution,
\* no other caller is touched, and the table is empty afterwards.
C3_LinkLossRejectsAll ==
    [][(linkState \in {"Connected", "Closing"} /\ linkState' = "Disconnected")
          => /\ pending' = {}
             /\ \A id \in Ids :
                   resolved'[id] = IF id \in pending
                                   THEN <<ConnectionLost>>
                                   ELSE resolved[id]]_vars

C3_Witness ==
    /\ corrEvent = Event("link lost", 0)
    /\ pending = {}
    /\ sentConnected = {1, 2}
    /\ resolved[1] = <<ConnectionLost>>
    /\ resolved[2] = <<ConnectionLost>>

\* C4: a response whose id is not in the pending table (a duplicate, or one
\* arriving after its request timed out) resolves and rejects nothing and
\* leaves the table as it was.
C4_UnknownIdDropped ==
    [][(corrEvent'.kind = "response" /\ corrEvent'.id \notin pending)
          => (pending' = pending /\ resolved' = resolved)]_vars

C4_Witness ==
    /\ corrEvent = Event("response", 1)
    /\ resolved[1] = <<Timeout>>
    /\ 2 \in pending

\* a step of call()
CallStep == nextId' = nextId + 1

\* C27: a call made while the link is not Connected fails with LinkClosed,
\* nothing is sent, and no entry for it is in the pending table afterwards.
C27_UnconnectedCallFails ==
    [][(CallStep /\ linkState /= "Connected")
          => /\ corrEvent' = Event("call", new_id(nextId))
             /\ resolved'[corrEvent'.id] = <<LinkClosed>>
             /\ corrEvent'.id \notin pending'
             /\ pending' = pending
             /\ outbox' = outbox]_vars

C27_Witness ==
    /\ corrEvent.kind = "call"
    /\ linkState /= "Connected"
    /\ resolved[corrEvent.id] = <<LinkClosed>>
    /\ corrEvent.id \notin pending

\* an id in flight has been assigned, and to one request only
InFlightOnce ==
    \A id \in pending : id < nextId /\ resolved[id] = <<>>

\* C28: the pending table holds at most one PendingRequest per id, and the
\* id given to a new request is not that of a request still in flight.
C28_IdsNotReusedInFlight ==
    /\ []InFlightOnce
    /\ [][CallStep => corrEvent'.id \notin pending]_vars

\* a second request was registered while the first was still in flight
C28_Witness ==
    /\ corrEvent = Event("call", 2)
    /\ pending = {1, 2}

----------------------------------------------------------------------------
(* yjs_bridge.py: cell operations.  A python list is a sequence indexed    *)
(* from 1, so python index i is position i + 1.                            *)

Paths == {"a.ipynb"}

\* None, or a value
None == <<>>
Some(x) == <<x>>

\* the cell _modify_notebook builds for "insert"
NewCell(cell_type, source) ==
    IF cell_type = "code"
    THEN [cell_type |-> cell_type, source |-> source, metadata |-> "{}",
          outputs |-> <<>>, execution_count |-> "None"]
    ELSE [cell_type |-> cell_type, source |-> source, metadata |-> "{}"]

\* mutant: the new element always goes last
ListInsert_Append(list, i, x) == Append(list, x)

\* list.insert(i, x): a negative i counts from the end, and i is clamped
ListInsert(list, i, x) ==
    LET n == Len(list)
        j == IF i < 0 THEN (IF i + n < 0 THEN 0 ELSE i + n)
             ELSE (IF i > n THEN n ELSE i)
    IN  SubSeq(list, 1, j) \o <<x>> \o SubSeq(list, j + 1, n)

\* mutant: the last element is removed whatever i is
ListDelete_Last(list, i) == SubSeq(list, 1, Len(list) - 1)

\* del list[i] and list.pop(i), for 0 <= i < len(list)
ListDelete(list, i) ==
    SubSeq(list, 1, i) \o SubSeq(list, i + 2, Len(list))

Modified(cells) == [ok |-> TRUE, cells |-> cells, exc |-> NoExc]
Failed(e) == [ok |-> FALSE, cells |-> <<>>, exc |-> e]

\* mutant: the cell is replaced by a new code cell with the source
SetSource_NewCell(cell, source) == NewCell("code", source)

\* _modify_notebook, line 266: cells[idx]["source"] = kwargs["source"]
SetSource(cell, source) ==
    [k \in DOMAIN cell \cup {"source"} |->
        IF k = "source" THEN source ELSE cell[k]]

\* _modify_notebook, lines 250-282: the operation on the list that was read
perform(cells, operation, kwargs) ==
    CASE operation = "insert" ->
           Modified(ListInsert(cells, kwargs.cell_index,
                               NewCell(kwargs.cell_type, kwargs.source)))
      [] operation = "update" ->
           IF kwargs.cell_index < 0 \/ kwargs.cell_index >= Len(cells)
           THEN Failed(Exc("IndexError",
                           "Cell index " \o ToString(kwargs.cell_index)
                               \o " out of range"))
           ELSE Modified([cells EXCEPT ![kwargs.cell_index + 1] =
                            SetSource(@, kwargs.source)])
      [] operation = "delete" ->
           IF kwargs.cell_index < 0 \/ kwargs.cell_index >= Len(cells)
           THEN Failed(Exc("IndexError",
                           "Cell index " \o ToString(kwargs.cell_index)
                               \o " out of range"))
           ELSE Modified(ListDelete(cells, kwargs.cell_index))
      [] operation = "move" ->
           IF kwargs.from_index < 0 \/ kwargs.from_index >= Len(cells)
           THEN Failed(Exc("IndexError",
                           "from_index " \o ToString(kwargs.from_index)
                               \o " out of range"))
           ELSE IF kwargs.to_index < 0 \/ kwargs.to_index > Len(cells)
           THEN Failed(Exc("IndexError",
                           "to_index " \o ToString(kwargs.to_index)
                               \o " out of range"))
           ELSE Modified(ListInsert(ListDelete(cells, kwargs.from_index),
                                    kwargs.to_index,
                                    cells[kwargs.from_index + 1]))

\* the operation each mutating handler passes to _modify_notebook
OperationOf ==
    [insert_cell |-> "insert", update_cell |-> "update",
     delete_cell |-> "delete", move_cell |-> "move"]

\* path = notebook_id or params.get("path")
PathOf(params, notebook_id) ==
    IF notebook_id /= None THEN notebook_id
    ELSE IF "path" \in DOMAIN params THEN Some(params.path) ELSE None

\* insert_cell, update_cell, delete_cell, move_cell up to the call of
\* _modify_notebook: the ValueError each raises for a missing parameter
Missing(action, params, notebook_id) ==
    IF PathOf(params, notebook_id) = None
    THEN Exc("ValueError", "Notebook path required")
    ELSE IF action = "move_cell"
    THEN IF {"from_index", "to_index"} \subseteq DOMAIN params
         THEN NoExc
         ELSE Exc("ValueError", "from_index and to_index required")
    ELSE IF "cell_index" \notin DOMAIN params
    THEN Exc("ValueError", "cell_index required")
    ELSE IF action = "update_cell" /\ "source" \notin DOMAIN params
    THEN Exc("ValueError", "source required")
    ELSE NoExc

\* the keyword arguments handed to _modify_notebook; insert_cell defaults
\* cell_type to "code" and source to ""
Kwargs(action, params) ==
    IF action = "insert_cell"
    THEN [cell_index |-> params.cell_index,
          cell_type |-> DictGet(params, "cell_type", "code"),
          source |-> DictGet(params, "source", "")]
    ELSE params

\* each store access is an asyncio.to_thread call run to completion on a
\* loop of the call's own, so a bridge call occupies its calling thread;
\* calls that overlap are calls made from different threads
Threads == {"t1", "t2"}

\* a thread's bridge call: where it is, what it was asked, the list it read
\* and what it returned or raised
NoCall ==
    [pc |-> "idle", action |-> "", params |-> <<>>, path |-> "",
     cells |-> <<>>, result |-> NoOutcome, cell_count |-> 0]

\* the notebooks a run may start from, and the requests threads may make
CodeCell(source) ==
    [cell_type |-> "code", source |-> source, metadata |-> "{}",
     outputs |-> <<"out">>, execution_count |-> "1"]

InitialNotebooks ==
    {<<>>, <<CodeCell("a")>>,
     <<CodeCell("a"), NewCell("markdown", "b")>>}

MutationRequests ==
    {[action |-> "insert_cell",
      params |-> [cell_index |-> i, source |-> src, cell_type |-> "code"]] :
        i \in 0..2, src \in {"x", "y"}}
    \cup {[action |-> "insert_cell", params |-> [cell_index |-> 0]],
          [action |-> "insert_cell", params |-> [source |-> "x"]],
          [action |-> "update_cell",
           params |-> [cell_index |-> 0, source |-> "x"]],
          [action |-> "update_cell", params |-> [cell_index |-> 0]],
          [action |-> "delete_cell", params |-> [cell_index |-> 0]],
          [action |-> "delete_cell", params |-> [cell_index |-> 2]],
          [action |-> "move_cell",
           params |-> [from_index |-> 0, to_index |-> 1]],
          [action |-> "move_cell", params |-> [from_index |-> 0]]}

NotebookIds == {None, Some("a.ipynb")}

NbIdle ==
    /\ store = [pa \in Paths |-> <<>>]
    /\ calls = [t \in Threads |-> NoCall]
    /\ begun = 0
    /\ initialCells = <<>>
    /\ insertsDone = 0
    /\ othersDone = 0

NbInit ==
    /\ \E nb \in InitialNotebooks :
         /\ store = [pa \in Paths |-> nb]
         /\ initialCells = nb
    /\ calls = [t \in Threads |-> NoCall]
    /\ begun = 0
    /\ insertsDone = 0
    /\ othersDone = 0

\* a thread enters insert_cell, update_cell, delete_cell or move_cell: a
\* missing parameter raises ValueError, otherwise _modify_notebook starts
Begin(t) ==
    /\ calls[t].pc \in {"idle", "done"}
    /\ begun < MaxOps
    /\ begun' = begun + 1
    /\ \E req \in MutationRequests, nid \in NotebookIds :
         LET e == Missing(req.action, req.params, nid)
         IN  calls' = [calls EXCEPT ![t] =
                 IF e /= NoExc
                 THEN [NoCall EXCEPT !.pc = "done", !.action = req.action,
                                     !.params = req.params,
                                     !.result = Raise(e)]
                 ELSE [NoCall EXCEPT !.pc = "get", !.action = req.action,
                                     !.params = req.params,
                                     !.path = PathOf(req.params, nid)[1]]]
    /\ UNCHANGED <<store, initialCells, insertsDone, othersDone>>
    /\ UNCHANGED notNb

\* _modify_notebook, lines 244-248: contents_manager.get in a worker thread
Get(t) ==
    /\ calls[t].pc = "get"
    /\ calls' = [calls EXCEPT ![t].pc = "save",
                              ![t].cells = store[calls[t].path]]
    /\ UNCHANGED <<store, begun, initialCells, insertsDone, othersDone>>
    /\ UNCHANGED notNb

\* _modify_notebook, lines 250-294: the operation on the list read, then
\* contents_manager.save of the whole list and the result; an IndexError
\* leaves before the save
Save(t) ==
    /\ calls[t].pc = "save"
    /\ LET c == calls[t]
           m == perform(c.cells, OperationOf[c.action],
                        Kwargs(c.action, c.params))
       IN  IF m.ok
           THEN /\ store' = [store EXCEPT ![c.path] = m.cells]
                /\ calls' = [calls EXCEPT
                       ![t].pc = "done",
                       ![t].cells = m.cells,
                       ![t].cell_count = Len(m.cells),
                       ![t].result = Return(OperationOf[c.action])]
                /\ insertsDone' = insertsDone
                                    + (IF c.action = "insert_cell" THEN 1 ELSE 0)
                /\ othersDone' = othersDone
                                    + (IF c.action = "insert_cell" THEN 0 ELSE 1)
           ELSE /\ calls' = [calls EXCEPT ![t].pc = "done",
                                          ![t].result = Raise(m.exc)]
                /\ UNCHANGED <<store, insertsDone, othersDone>>
    /\ UNCHANGED <<begun, initialCells>>
    /\ UNCHANGED notNb

NbNext ==
    \/ \E t \in Threads : Begin(t)
    \/ \E t \in Threads : Get(t)
    \/ \E t \in Threads : Save(t)

\* C9: N concurrent successful insert_cell calls against one notebook path
\* leave the stored notebook with its initial cell count plus N cells, under
\* every interleaving of the calls' read and save steps.
C9_NoLostInsert ==
    (othersDone = 0 /\ \A t \in Threads : calls[t].pc \in {"idle", "done"})
        => \A pa \in Paths :
              Len(store[pa]) = Len(initialCells) + insertsDone

----------------------------------------------------------------------------
(* yjs_bridge.py and tools/cells.py: cell operations called one at a time  *)

\* get_notebook_content, lines 110-116: what it returns for the cell at
\* python index i
CellView(i, cell) ==
    [index |-> i, cell_type |-> cell.cell_type, source |-> cell.source,
     outputs |-> DictGet(cell, "outputs", <<>>),
     metadata |-> DictGet(cell, "metadata", "{}")]

\* get_notebook_content(params, notebook_id) with a contents manager
get_notebook_content(st, params, notebook_id) ==
    LET path == PathOf(params, notebook_id)
    IN  IF path = None
        THEN Raise(Exc("ValueError", "Notebook path required"))
        ELSE Return([path |-> path[1],
                     cells |-> [i \in 1..Len(st[path[1]]) |->
                                   CellView(i - 1, st[path[1]][i])],
                     metadata |-> "{}"])

\* f"Cell index {cell_index} out of range (0-{len(cells) - 1})"
OutOfRange(cell_index, n) ==
    Exc("IndexError", "Cell index " \o ToString(cell_index)
                          \o " out of range (0-" \o ToString(n - 1) \o ")")

\* mutant: no test of the lower end, so a negative index counts from the
\* end of the list as cells[cell_index] does
get_cell_NoLowerCheck(st, params, notebook_id) ==
    IF "cell_index" \notin DOMAIN params
    THEN Raise(Exc("ValueError", "cell_index required"))
    ELSE
    LET content == get_notebook_content(st, params, notebook_id)
    IN  IF content.kind = "raise"
        THEN content
        ELSE
        LET cells == content.value.v.cells
            i == params.cell_index
        IN  IF i >= Len(cells)
            THEN Raise(OutOfRange(i, Len(cells)))
            ELSE IF i < 0 - Len(cells)
            THEN Raise(Exc("IndexError", "list index out of range"))
            ELSE IF i < 0
            THEN Return([cell |-> cells[i + Len(cells) + 1]])
            ELSE Return([cell |-> cells[i + 1]])

\* YjsBridge.get_cell(params, notebook_id)
get_cell(st, params, notebook_id) ==
    IF "cell_index" \notin DOMAIN params
    THEN Raise(Exc("ValueError", "cell_index required"))
    ELSE
    LET content == get_notebook_content(st, params, notebook_id)
    IN  IF content.kind = "raise"
        THEN content
        ELSE
        LET cells == content.value.v.cells
            i == params.cell_index
        IN  IF i < 0 \/ i >= Len(cells)
            THEN Raise(OutOfRange(i, Len(cells)))
            ELSE Return([cell |-> cells[i + 1]])

\* what a mutating handler does to the store and what it returns or raises
Handled(st, outcome) == [store |-> st, outcome |-> outcome]

\* mutant: the count returned is that of the cells read, not of those saved
modify_notebook_CountRead(st, action, params, notebook_id) ==
    LET e == Missing(action, params, notebook_id)
    IN  IF e /= NoExc
        THEN Handled(st, Raise(e))
        ELSE
        LET path == PathOf(params, notebook_id)[1]
            m == perform(st[path], OperationOf[action], Kwargs(action, params))
        IN  IF m.ok
            THEN Handled([st EXCEPT ![path] = m.cells],
                         Return([success |-> TRUE,
                                 operation |-> OperationOf[action],
                                 cell_count |-> Len(st[path])]))
            ELSE Handled(st, Raise(m.exc))

\* insert_cell, update_cell, delete_cell and move_cell with _modify_notebook
\* run to the end: the parameter checks, the read, the operation, the save
modify_notebook(st, action, params, notebook_id) ==
    LET e == Missing(action, params, notebook_id)
    IN  IF e /= NoExc
        THEN Handled(st, Raise(e))
        ELSE
        LET path == PathOf(params, notebook_id)[1]
            m == perform(st[path], OperationOf[action], Kwargs(action, params))
        IN  IF m.ok
            THEN Handled([st EXCEPT ![path] = m.cells],
                         Return([success |-> TRUE,
                                 operation |-> OperationOf[action],
                                 cell_count |-> Len(m.cells)]))
            ELSE Handled(st, Raise(m.exc))

\* mutant: the execution count is left as it was
clear_cell_OutputsOnly(cell) ==
    IF DictGet(cell, "cell_type", "None") = "code"
    THEN [k \in DOMAIN cell \cup {"outputs"} |->
             IF k = "outputs" THEN <<>> ELSE cell[k]]
    ELSE cell

\* clear_outputs, lines 575-577 and 581-583: a code cell gets outputs = []
\* and execution_count = None, any other cell is left alone
clear_cell(cell) ==
    IF DictGet(cell, "cell_type", "None") = "code"
    THEN [k \in DOMAIN cell \cup {"outputs", "execution_count"} |->
             CASE k = "outputs" -> <<>>
               [] k = "execution_count" -> "None"
               [] OTHER -> cell[k]]
    ELSE cell

\* the value of the response's cleared field
Cleared(params) ==
    IF "cell_index" \in DOMAIN params
    THEN JNum(ToString(params.cell_index))
    ELSE JStr("all")

\* mutant: with an index out of range every cell is cleared and saved before
\* the IndexError is raised
clear_outputs_SavesFirst(st, params, notebook_id) ==
    LET path == PathOf(params, notebook_id)
    IN  IF path = None
        THEN Handled(st, Raise(Exc("ValueError", "Notebook path required")))
        ELSE
        LET cells == st[path[1]]
            all == [i \in 1..Len(cells) |-> clear_cell(cells[i])]
        IN  IF "cell_index" \in DOMAIN params
            THEN IF params.cell_index < 0 \/ params.cell_index >= Len(cells)
                 THEN Handled([st EXCEPT ![path[1]] = all],
                              Raise(Exc("IndexError",
                                        "Cell index "
                                            \o ToString(params.cell_index)
                                            \o " out of range")))
                 ELSE Handled([st EXCEPT ![path[1]] =
                                  [cells EXCEPT ![params.cell_index + 1] =
                                      clear_cell(@)]],
                              Return([success |-> TRUE,
                                      cleared |-> Cleared(params)]))
            ELSE Handled([st EXCEPT ![path[1]] = all],
                         Return([success |-> TRUE,
                                 cleared |-> Cleared(params)]))

\* clear_outputs(params, notebook_id) with a contents manager, run to the
\* end: the path check, the read, the clearing, the save
clear_outputs(st, params, notebook_id) ==
    LET path == PathOf(params, notebook_id)
    IN  IF path = None
        THEN Handled(st, Raise(Exc("ValueError", "Notebook path required")))
        ELSE
        LET cells == st[path[1]]
        IN  IF "cell_index" \in DOMAIN params
            THEN IF params.cell_index < 0 \/ params.cell_index >= Len(cells)
                 THEN Handled(st, Raise(Exc("IndexError",
                                            "Cell index "
                                                \o ToString(params.cell_index)
                                                \o " out of range")))
                 ELSE Handled([st EXCEPT ![path[1]] =
                                  [cells EXCEPT ![params.cell_index + 1] =
                                      clear_cell(@)]],
                              Return([success |-> TRUE,
                                      cleared |-> Cleared(params)]))
            ELSE Handled([st EXCEPT ![path[1]] =
                             [i \in 1..Len(cells) |-> clear_cell(cells[i])]],
                         Return([success |-> TRUE,
                                 cleared |-> Cleared(params)]))

\* client.send_request as the specification describes it, against the host:
\* the request reaches _handle_request, whose envelope resolves the call
\* with its data or rejects it with its error
send_request(action, outcome) ==
    LET frame == invoke(action, JStr("1"), outcome).sent[1]
    IN  IF frame.success THEN Data(frame.data) ELSE UpstreamError(frame.error)

\* what a tool returned, and whether it sent a request to get it
ToolReturn(sent, value) == [sent |-> sent, value |-> value]

\* tools/cells.py, get_cell(cell_index, notebook_path)
tool_get_cell(st, cell_index, notebook_path) ==
    IF cell_index < 0
    THEN ToolReturn(FALSE,
                    [error |-> "cell_index must be non-negative, got "
                                   \o ToString(cell_index)])
    ELSE
    LET params == IF notebook_path /= None
                  THEN [cell_index |-> cell_index, path |-> notebook_path[1]]
                  ELSE [cell_index |-> cell_index]
        answer == send_request("get_cell",
                               get_cell(st, params, notebook_path))
    IN  IF answer.kind = "data"
        THEN ToolReturn(TRUE, answer.payload)
        ELSE ToolReturn(TRUE, [error |-> answer.payload])

\* the indexes and the requests a call may carry
CellIndexes == (0 - 1)..3

CellRequests ==
    {[action |-> "insert_cell",
      params |-> [cell_index |-> i, source |-> "x", cell_type |-> ty]] :
        i \in CellIndexes, ty \in {"code", "markdown"}}
    \cup {[action |-> "insert_cell", params |-> [source |-> "x"]]}
    \cup {[action |-> "update_cell",
           params |-> [cell_index |-> i, source |-> "x"]] : i \in CellIndexes}
    \cup {[action |-> "update_cell", params |-> [cell_index |-> 0]]}
    \cup {[action |-> "delete_cell", params |-> [cell_index |-> i]] :
             i \in CellIndexes}
    \cup {[action |-> "move_cell",
           params |-> [from_index |-> i, to_index |-> j]] :
             i \in CellIndexes, j \in CellIndexes}
    \cup {[action |-> "move_cell", params |-> [from_index |-> 0]]}

GetCellParams ==
    {[cell_index |-> i] : i \in CellIndexes}
    \cup {[cell_index |-> i, path |-> "a.ipynb"] : i \in CellIndexes}
    \cup {[path |-> "a.ipynb"]}

\* the last call: who was called ("bridge" or "tool"), with what, the store
\* before it, what the bridge returned or raised, what the tool returned
NoCellCall ==
    [via |-> "none", action |-> "", params |-> <<>>, notebook_id |-> None,
     before |-> [pa \in Paths |-> <<>>], outcome |-> NoOutcome,
     returned |-> ToolReturn(FALSE, <<>>)]

CellIdle ==
    /\ lastCall = NoCellCall
    /\ made = 0

\* YjsBridge.insert_cell, update_cell, delete_cell or move_cell is called
\* and runs to its end
Mutate ==
    /\ made < MaxOps
    /\ made' = made + 1
    /\ \E req \in CellRequests, nid \in NotebookIds :
         LET h == modify_notebook(store, req.action, req.params, nid)
         IN  /\ store' = h.store
             /\ lastCall' = [NoCellCall EXCEPT
                    !.via = "bridge", !.action = req.action,
                    !.params = req.params, !.notebook_id = nid,
                    !.before = store, !.outcome = h.outcome]
    /\ UNCHANGED <<calls, begun, initialCells, insertsDone, othersDone>>
    /\ UNCHANGED notCell

\* YjsBridge.get_cell is called
GetCell ==
    /\ made < MaxOps
    /\ made' = made + 1
    /\ \E params \in GetCellParams, nid \in NotebookIds :
         lastCall' = [NoCellCall EXCEPT
             !.via = "bridge", !.action = "get_cell", !.params = params,
             !.notebook_id = nid, !.before = store,
             !.outcome = get_cell(store, params, nid)]
    /\ UNCHANGED nbVars
    /\ UNCHANGED notCell

\* the parameters a clear_outputs call may carry
ClearParams ==
    {[cell_index |-> i] : i \in CellIndexes} \cup {<<>>}

\* YjsBridge.clear_outputs is called
ClearOutputs ==
    /\ made < MaxOps
    /\ made' = made + 1
    /\ \E params \in ClearParams, nid \in NotebookIds :
         LET h == clear_outputs(store, params, nid)
         IN  /\ store' = h.store
             /\ lastCall' = [NoCellCall EXCEPT
                    !.via = "bridge", !.action = "clear_outputs",
                    !.params = params, !.notebook_id = nid,
                    !.before = store, !.outcome = h.outcome]
    /\ UNCHANGED <<calls, begun, initialCells, insertsDone, othersDone>>
    /\ UNCHANGED notCell

\* the get_cell tool is called
ToolGetCell ==
    /\ made < MaxOps
    /\ made' = made + 1
    /\ \E i \in CellIndexes, nid \in NotebookIds :
         lastCall' = [NoCellCall EXCEPT
             !.via = "tool", !.action = "get_cell",
             !.params = [cell_index |-> i], !.notebook_id = nid,
             !.before = store,
             !.returned = tool_get_cell(store, i, nid)]
    /\ UNCHANGED nbVars
    /\ UNCHANGED notCell

----------------------------------------------------------------------------
(* yjs_bridge.py: execute_code *)

\* the id client.execute returns for this run, and the id of another
\* execution on the same kernel
OwnMsgId == "msg-1"
OtherMsgId == "msg-0"

\* a message of the kernel's iopub channel
IopubMsg(parent, msg_type, content) ==
    [parent |-> parent, msg_type |-> msg_type, content |-> content]

Contents ==
    [status |-> {[execution_state |-> "idle"], [execution_state |-> "busy"]},
     stream |-> {[name |-> "stdout", text |-> "1"],
                 [name |-> "stderr", text |-> "warn"]},
     execute_result |-> {[data |-> "text/plain: 1", metadata |-> "{m}"]},
     display_data |-> {[data |-> "image/png"]},
     error |-> {[ename |-> "ZeroDivisionError", evalue |-> "division by zero",
                 traceback |-> "tb"]},
     execute_input |-> {[code |-> "1/0"]}]

IopubMsgs ==
    UNION {{IopubMsg(pa, ty, c) : pa \in {OwnMsgId, OtherMsgId},
                                 c \in Contents[ty]} : ty \in DOMAIN Contents}

\* the loop of lines 368-405 after one message: the outputs, and whether
\* the loop was left
Step(outputs, stop) == [outputs |-> outputs, stop |-> stop]

\* mutant: the parent header is not compared with msg_id
collect_AnyParent(outputs, msg, msg_id) ==
    IF msg.msg_type = "status" /\ msg.content.execution_state = "idle"
    THEN Step(outputs, TRUE)
    ELSE IF msg.msg_type = "stream"
    THEN Step(Append(outputs, [output_type |-> "stream",
                               name |-> msg.content.name,
                               text |-> msg.content.text]), FALSE)
    ELSE Step(outputs, FALSE)

\* mutant: display_data is not collected
collect_NoDisplay(outputs, msg, msg_id) ==
    IF msg.parent /= msg_id
    THEN Step(outputs, FALSE)
    ELSE IF msg.msg_type = "status" /\ msg.content.execution_state = "idle"
    THEN Step(outputs, TRUE)
    ELSE IF msg.msg_type = "stream"
    THEN Step(Append(outputs, [output_type |-> "stream",
                               name |-> msg.content.name,
                               text |-> msg.content.text]), FALSE)
    ELSE IF msg.msg_type = "execute_result"
    THEN Step(Append(outputs, [output_type |-> msg.msg_type,
                               data |-> msg.content.data,
                               metadata |-> DictGet(msg.content, "metadata",
                                                    "{}")]), FALSE)
    ELSE IF msg.msg_type = "error"
    THEN Step(Append(outputs, [output_type |-> "error",
                               ename |-> msg.content.ename,
                               evalue |-> msg.content.evalue,
                               traceback |-> msg.content.traceback]), FALSE)
    ELSE Step(outputs, FALSE)

\* mutant: an error message ends the loop
collect_ErrorStops(outputs, msg, msg_id) ==
    IF msg.parent /= msg_id
    THEN Step(outputs, FALSE)
    ELSE IF msg.msg_type = "status" /\ msg.content.execution_state = "idle"
    THEN Step(outputs, TRUE)
    ELSE IF msg.msg_type = "stream"
    THEN Step(Append(outputs, [output_type |-> "stream",
                               name |-> msg.content.name,
                               text |-> msg.content.text]), FALSE)
    ELSE IF msg.msg_type \in {"execute_result", "display_data"}
    THEN Step(Append(outputs, [output_type |-> msg.msg_type,
                               data |-> msg.content.data,
                               metadata |-> DictGet(msg.content, "metadata",
                                                    "{}")]), FALSE)
    ELSE IF msg.msg_type = "error"
    THEN Step(Append(outputs, [output_type |-> "error",
                               ename |-> msg.content.ename,
                               evalue |-> msg.content.evalue,
                               traceback |-> msg.content.traceback]), TRUE)
    ELSE Step(outputs, FALSE)

\* execute_code, lines 371-402: one message taken from the iopub channel
collect(outputs, msg, msg_id) ==
    IF msg.parent /= msg_id
    THEN Step(outputs, FALSE)
    ELSE IF msg.msg_type = "status" /\ msg.content.execution_state = "idle"
    THEN Step(outputs, TRUE)
    ELSE IF msg.msg_type = "stream"
    THEN Step(Append(outputs, [output_type |-> "stream",
                               name |-> msg.content.name,
                               text |-> msg.content.text]), FALSE)
    ELSE IF msg.msg_type \in {"execute_result", "display_data"}
    THEN Step(Append(outputs, [output_type |-> msg.msg_type,
                               data |-> msg.content.data,
                               metadata |-> DictGet(msg.content, "metadata",
                                                    "{}")]), FALSE)
    ELSE IF msg.msg_type = "error"
    THEN Step(Append(outputs, [output_type |-> "error",
                               ename |-> msg.content.ename,
                               evalue |-> msg.content.evalue,
                               traceback |-> msg.content.traceback]), FALSE)
    ELSE Step(outputs, FALSE)

\* what execute_code returns or raises
NoResult == [kind |-> "none", outputs |-> <<>>, success |-> FALSE,
             exc |-> NoExc]
Returned(outputs, success) ==
    [kind |-> "return", outputs |-> outputs, success |-> success,
     exc |-> NoExc]
Raised(e) == [kind |-> "raise", outputs |-> <<>>, success |-> FALSE, exc |-> e]

\* the run: pc, the msg_id of its execution, the outputs list, how the loop
\* was left ("idle", "timeout", "exception" or "none"), the result, whether
\* the client made at line 362 still has its channels open, what the last
\* get_iopub_msg call did ("message", "timeout", "raised" or "none"), and
\* the parity of the waits that ended after the recorded history was full
\* what the run was asked through: execute_code, or execute_cell with its
\* params and the number of cells of the notebook it named
NotAsked == [action |-> "none", params |-> <<>>, cells |-> 0]

NoRun ==
    [pc |-> "idle", msg_id |-> "", outputs |-> <<>>, left |-> "none",
     result |-> NoResult, subscribed |-> FALSE, waited |-> "none",
     beyond |-> 0, asked |-> NotAsked]

ExIdle ==
    /\ run = NoRun
    /\ iopub = <<>>

\* execute_code, lines 336-366: the checks, the kernel lookup by path among
\* the sessions, kernel.client() and client.execute(code)
enter(r, hasCode, hasManagers, hasKernel) ==
    IF ~hasCode
    THEN [r EXCEPT !.pc = "done",
                   !.result = Raised(Exc("ValueError", "code required"))]
    ELSE IF ~hasManagers
    THEN [r EXCEPT !.pc = "done",
                   !.result = Raised(Exc("RuntimeError",
                                         "Kernel manager not available"))]
    ELSE IF ~hasKernel
    THEN [r EXCEPT !.pc = "done",
                   !.result = Raised(Exc("RuntimeError",
                                         "No kernel found for notebook"))]
    ELSE [r EXCEPT !.pc = "collecting", !.msg_id = OwnMsgId,
                   !.subscribed = TRUE]

\* execute_code is called
Execute ==
    /\ run.pc = "idle"
    /\ \E hasCode \in BOOLEAN, hasManagers \in BOOLEAN, hasKernel \in BOOLEAN :
         run' = enter(run, hasCode, hasManagers, hasKernel)
    /\ UNCHANGED iopub
    /\ UNCHANGED notEx

\* mutant: the cell is not looked up, and an empty source is executed when
\* the index names no cell
execute_cell_NoLookup(r, st, params, notebook_id, hasManagers, hasKernel) ==
    IF PathOf(params, notebook_id) = None
    THEN [r EXCEPT !.pc = "done",
                   !.result = Raised(Exc("ValueError",
                                         "Notebook path required"))]
    ELSE IF "cell_index" \notin DOMAIN params
    THEN [r EXCEPT !.pc = "done",
                   !.result = Raised(Exc("ValueError",
                                         "cell_index required"))]
    ELSE enter(r, TRUE, hasManagers, hasKernel)

\* execute_cell(params, notebook_id): the checks, get_cell, and execute_code
\* with the cell's source
execute_cell(r, st, params, notebook_id, hasManagers, hasKernel) ==
    IF PathOf(params, notebook_id) = None
    THEN [r EXCEPT !.pc = "done",
                   !.result = Raised(Exc("ValueError",
                                         "Notebook path required"))]
    ELSE IF "cell_index" \notin DOMAIN params
    THEN [r EXCEPT !.pc = "done",
                   !.result = Raised(Exc("ValueError",
                                         "cell_index required"))]
    ELSE
    LET cell_data == get_cell(st, params, PathOf(params, notebook_id))
    IN  IF cell_data.kind = "raise"
        THEN [r EXCEPT !.pc = "done", !.result = Raised(cell_data.exc)]
        ELSE enter(r, "source" \in DOMAIN cell_data.value.v.cell,
                   hasManagers, hasKernel)

\* the notebooks and the params an execute_cell call may meet
CellNotebooks ==
    {<<>>, <<CodeCell("a"), NewCell("markdown", "b")>>}

ExecuteCellParams ==
    {[cell_index |-> i] : i \in {0 - 1, 0, 2}} \cup {<<>>}

\* execute_cell is called, the notebook being what contents_manager.get
\* gives for its path
ExecuteCell ==
    /\ run.pc = "idle"
    /\ \E nb \in CellNotebooks, params \in ExecuteCellParams,
          hasManagers \in BOOLEAN, hasKernel \in BOOLEAN :
         run' = execute_cell(
                    [run EXCEPT !.asked = [action |-> "execute_cell",
                                           params |-> params,
                                           cells |-> Len(nb)]],
                    [pa \in Paths |-> nb], params, Some("a.ipynb"),
                    hasManagers, hasKernel)
    /\ UNCHANGED iopub
    /\ UNCHANGED notEx

\* mutant: the loop goes on after a wait that timed out
timed_out_Continue(outputs) == Step(outputs, FALSE)

\* execute_code, lines 404-405: except TimeoutError: break
timed_out(outputs) == Step(outputs, TRUE)

\* execute_code, lines 407-410: the return after the loop; the finally
\* clause closes the asyncio loop made at line 345 and nothing else
leave(r, how, outputs) ==
    [r EXCEPT !.pc = "done", !.left = how,
              !.result = Returned(outputs, TRUE)]

\* client.get_iopub_msg(timeout=30) returns a message
GetIopubMsg ==
    /\ run.pc = "collecting"
    /\ Len(iopub) < MaxEvents
    /\ \E msg \in IopubMsgs :
         LET st == collect(run.outputs, msg, run.msg_id)
             r == [run EXCEPT !.waited = "message"]
         IN  /\ iopub' = Append(iopub, msg)
             /\ run' = IF st.stop
                        THEN leave(r, "idle", st.outputs)
                        ELSE [r EXCEPT !.outputs = st.outputs]
    /\ UNCHANGED notEx

\* client.get_iopub_msg(timeout=30) returns a message of another execution
\* on the same kernel after the recorded history is full: the kernel goes on
\* publishing for as long as other executions run
GetIopubOther ==
    /\ run.pc = "collecting"
    /\ Len(iopub) = MaxEvents
    /\ \E msg \in {m \in IopubMsgs : m.parent = OtherMsgId} :
         LET st == collect(run.outputs, msg, run.msg_id)
             r == [run EXCEPT !.waited = "message"]
         IN  run' = IF st.stop
                    THEN leave(r, "idle", st.outputs)
                    ELSE [r EXCEPT !.outputs = st.outputs,
                                   !.beyond = 1 - run.beyond]
    /\ UNCHANGED iopub
    /\ UNCHANGED notEx

\* client.get_iopub_msg(timeout=30) raises TimeoutError: lines 404-407
GetIopubTimeout ==
    /\ run.pc = "collecting"
    /\ LET st == timed_out(run.outputs)
           r == [run EXCEPT !.waited = "timeout"]
       IN  run' = IF st.stop
                  THEN leave(r, "timeout", st.outputs)
                  ELSE [r EXCEPT !.outputs = st.outputs,
                                 !.beyond = 1 - run.beyond]
    /\ UNCHANGED iopub
    /\ UNCHANGED notEx

\* lines 369-403 raise something the except clause of line 404 does not
\* name (a message without the key the loop indexes): it leaves
\* execute_code through the finally clause of lines 409-410
GetIopubRaises ==
    /\ run.pc = "collecting"
    /\ run' = [run EXCEPT !.pc = "done", !.left = "exception",
                  !.waited = "raised",
                  !.result = Raised(Exc("KeyError", "'content'"))]
    /\ UNCHANGED iopub
    /\ UNCHANGED notEx

ExNext ==
    \/ Execute
    \/ ExecuteCell
    \/ GetIopubMsg
    \/ GetIopubOther
    \/ GetIopubTimeout
    \/ GetIopubRaises

(* Claims about execute_code *)

OutputTypes == {"stream", "execute_result", "display_data", "error"}

\* the entry an output event stands for, tagged with its kind
EntryOf(msg) ==
    CASE msg.msg_type = "stream" ->
           [output_type |-> "stream", name |-> msg.content.name,
            text |-> msg.content.text]
      [] msg.msg_type = "error" ->
           [output_type |-> "error", ename |-> msg.content.ename,
            evalue |-> msg.content.evalue,
            traceback |-> msg.content.traceback]
      [] OTHER ->
           [output_type |-> msg.msg_type, data |-> msg.content.data,
            metadata |-> IF "metadata" \in DOMAIN msg.content
                         THEN msg.content.metadata ELSE "{}"]

\* the entries of the matching output events among the first n delivered
RECURSIVE EntriesUpTo(_)
EntriesUpTo(n) ==
    IF n = 0 THEN <<>>
    ELSE IF iopub[n].parent = OwnMsgId /\ iopub[n].msg_type \in OutputTypes
    THEN Append(EntriesUpTo(n - 1), EntryOf(iopub[n]))
    ELSE EntriesUpTo(n - 1)

IsMatchingIdle(msg) ==
    /\ msg.parent = OwnMsgId
    /\ msg.msg_type = "status"
    /\ msg.content.execution_state = "idle"

C11_TimeoutIsFailure ==
    (run.pc = "done" /\ run.left = "timeout")
        => run.result = Returned(EntriesUpTo(Len(iopub)), FALSE)

\* C12: on every exit path of a run (idle, timeout, or an exception raised
\* while collecting) the subscription to the kernel's event channel is
\* released before the run returns: no terminated run holds a subscription.
C12_NoLeakedSubscription ==
    run.pc = "done" => ~run.subscribed

\* C13 as stated: every run eventually terminates, for every kernel event
\* stream, including the streams in which events of other executions keep
\* arriving.
C13_AlwaysTerminates ==
    <>(run.pc = "done")

\* C13 as amended: every run terminates on every stream that stops
\* delivering messages within the timeout of a wait; the events of other
\* executions restart the wait, so a stream that keeps delivering them keeps
\* the run collecting.
C13_TerminatesOnceQuiet ==
    <>[](run.waited /= "message") => <>(run.pc = "done")

C13_Witness ==
    /\ run.pc = "done"
    /\ run.left = "timeout"
    /\ run.beyond = 1
    /\ Len(iopub) = MaxEvents
    /\ \A i \in 1..Len(iopub) : iopub[i].parent = OtherMsgId

\* C16: events whose parent id differs from the run's own id are discarded:
\* they add no output entry and do not end the run, even when they are idle
\* status events.
C16_OtherParentDiscarded ==
    [][run.pc = "collecting" =>
        /\ (/\ Len(iopub') = Len(iopub) + 1
            /\ iopub'[Len(iopub')].parent /= run.msg_id)
               => (run'.outputs = run.outputs /\ run'.pc = "collecting")
        /\ (run'.waited = "message" /\ run'.beyond /= run.beyond)
               => (run'.outputs = run.outputs /\ run'.pc = "collecting")]_vars

C16_Witness ==
    /\ run.pc = "collecting"
    /\ Len(iopub) = 2
    /\ iopub[1].parent = OwnMsgId
    /\ iopub[1].msg_type = "stream"
    /\ iopub[2] = IopubMsg(OtherMsgId, "status", [execution_state |-> "idle"])
    /\ Len(run.outputs) = 1

\* C17: a matching error event does not end the run: it appends one error
\* entry, and the run goes on collecting the later stream, result and
\* display events until the matching idle status event arrives.
C17_ErrorIsNotTerminal ==
    [][(/\ run.pc = "collecting"
        /\ Len(iopub') = Len(iopub) + 1
        /\ iopub'[Len(iopub')].parent = run.msg_id
        /\ iopub'[Len(iopub')].msg_type = "error")
           => /\ run'.pc = "collecting"
              /\ run'.outputs = Append(run.outputs,
                                       EntryOf(iopub'[Len(iopub')]))]_vars

C17_Witness ==
    /\ run.pc = "done"
    /\ run.left = "idle"
    /\ Len(iopub) = 3
    /\ iopub[1].parent = OwnMsgId
    /\ iopub[1].msg_type = "error"
    /\ iopub[2].parent = OwnMsgId
    /\ iopub[2].msg_type = "stream"
    /\ Len(run.result.outputs) = 2
    /\ run.result.outputs[1].output_type = "error"
    /\ run.result.outputs[2].output_type = "stream"


\* the run is an execute_cell whose cell_index is missing or names no cell
NoSuchCell ==
    /\ run.asked.action = "execute_cell"
    /\ \/ "cell_index" \notin DOMAIN run.asked.params
       \/ run.asked.params.cell_index < 0
       \/ run.asked.params.cell_index >= run.asked.cells

\* C35: execute_cell with a missing or out-of-range cell_index fails before
\* anything reaches the kernel: no execution is started (no msg_id, no
\* client channels) and no kernel event is consumed.
C35_RejectedBeforeSubmission ==
    NoSuchCell
        => /\ run.pc = "done"
           /\ run.result.kind = "raise"
           /\ run.result.exc.type \in {"ValueError", "IndexError"}
           /\ run.msg_id = ""
           /\ ~run.subscribed
           /\ run.waited = "none"
           /\ iopub = <<>>

\* index 2 of a two-cell notebook was refused
C35_Witness ==
    /\ NoSuchCell
    /\ run.asked.cells = 2
    /\ run.asked.params = [cell_index |-> 2]
    /\ run.result.exc.type = "IndexError"
    /\ iopub = <<>>

\* C25: the success field returned by execute_cell and execute_code is true
\* only when the execution completed without errors: a run that emitted an
\* error output reports success=false.
C25_ErrorMeansFailure ==
    (/\ run.pc = "done"
     /\ run.result.kind = "return"
     /\ \E i \in 1..Len(run.result.outputs) :
          run.result.outputs[i].output_type = "error")
        => ~run.result.success

----------------------------------------------------------------------------
(* handlers.py and yjs_bridge.py: the IO loop of the host serving requests *)
(* of one open connection.  on_message is a coroutine the IO loop runs; the *)
(* handlers it calls are plain functions, and execute_code calls            *)
(* client.get_iopub_msg(timeout=30) on the IO loop's own thread.            *)

\* the requests the tool process sends
ServeRequests ==
    {[id |-> "r1", action |-> "execute_code"],
     [id |-> "r2", action |-> "interrupt_kernel"]}

\* interrupt_kernel, lines 423-443: what it returns or raises
InterruptOutcomes ==
    {Return([success |-> TRUE, kernel_id |-> "k1"]),
     Raise(Exc("RuntimeError", "Kernel manager not available"))}

NoRequest == [id |-> "", action |-> ""]

ServeIdle ==
    /\ arrived = <<>>
    /\ serving = NoRequest
    /\ answered = <<>>
    /\ abandoned = {}

\* the ids of the requests received so far, waiting or being served
Received ==
    {arrived[i].id : i \in 1..Len(arrived)}
        \cup (IF serving = NoRequest THEN {} ELSE {serving.id})

Answered == {answered[i].id.v : i \in 1..Len(answered)}

\* a frame sent by the tool process reaches the host's socket
Arrive(req) ==
    /\ req.id \notin Received \cup Answered
    /\ arrived' = Append(arrived, req)
    /\ UNCHANGED <<serving, answered, abandoned>>
    /\ UNCHANGED exVars
    /\ UNCHANGED notServe

\* the IO loop, not inside a callback, calls on_message with the next frame;
\* execute_code enters its loop, any other handler runs to its end
Dispatch ==
    /\ serving = NoRequest
    /\ arrived /= <<>>
    /\ arrived' = Tail(arrived)
    /\ LET req == Head(arrived)
       IN  IF req.action = "execute_code"
           THEN /\ run.pc = "idle"
                /\ \E hasCode \in BOOLEAN, hasManagers \in BOOLEAN,
                      hasKernel \in BOOLEAN :
                     run' = enter(run, hasCode, hasManagers, hasKernel)
                /\ serving' = req
                /\ UNCHANGED <<answered, iopub>>
           ELSE /\ \E o \in InterruptOutcomes :
                     answered' = answered
                                   \o invoke(req.action, JStr(req.id), o).sent
                /\ UNCHANGED <<serving, run, iopub>>
    /\ UNCHANGED abandoned
    /\ UNCHANGED notServe

\* execute_code has returned or raised: _handle_request envelopes the
\* outcome and on_message ends
Finish ==
    /\ serving /= NoRequest
    /\ run.pc = "done"
    /\ LET o == IF run.result.kind = "return"
                THEN Return([outputs |-> run.result.outputs,
                             success |-> run.result.success])
                ELSE Raise(run.result.exc)
       IN  answered' = answered
                         \o invoke(serving.action, JStr(serving.id), o).sent
    /\ serving' = NoRequest
    /\ run' = NoRun
    /\ iopub' = <<>>
    /\ UNCHANGED <<arrived, abandoned>>
    /\ UNCHANGED notServe

\* the caller of a request that was sent and not answered stops waiting for
\* it: its call() timed out or was cancelled
GiveUp(req) ==
    /\ req.id \in Received
    /\ req.id \notin abandoned
    /\ abandoned' = abandoned \cup {req.id}
    /\ UNCHANGED <<arrived, serving, answered>>
    /\ UNCHANGED exVars
    /\ UNCHANGED notServe

ServeNext ==
    \/ \E req \in ServeRequests : Arrive(req)
    \/ Dispatch
    \/ GetIopubMsg
    \/ GetIopubOther
    \/ GetIopubTimeout
    \/ GetIopubRaises
    \/ Finish
    \/ \E req \in ServeRequests : GiveUp(req)

(* Claims about the serving of requests *)

\* C14: while an execution run is waiting for kernel events, other requests
\* that arrive on the link (interrupt_kernel, get_kernel_status) are
\* dispatched and answered without waiting for the run to terminate.
C14_ServedDuringRun ==
    (run.pc = "collecting" /\ arrived /= <<>>) => ENABLED Dispatch

\* C15: when the call() that wraps an execution is cancelled or times out on
\* the caller's side, the run is terminated and unsubscribed: it consumes no
\* kernel event after its owning request is gone.
C15_AbandonedRunStops ==
    [][(/\ serving.id \in abandoned
        /\ run.pc = "collecting")
           => ~(run' /= run /\ run'.waited = "message")]_vars

----------------------------------------------------------------------------
(* tools/cells.py, tools/kernel.py, tools/notebook.py: the tools.  A tool   *)
(* checks its arguments, builds the request, awaits client.send_request    *)
(* and shapes what comes back; the link and the host are whatever answers.  *)

\* the tools are named after the actions they request
Tools == Actions

EmptyDict == <<>>
PyNone == "None"

\* the indexes and the arguments a tool may be called with
ToolIndexes == {0 - 1, 0, 1}

ToolArgs(tool) ==
    CASE tool \in {"get_cell", "delete_cell", "execute_cell",
                   "get_cell_outputs"} ->
           {[cell_index |-> i, notebook_path |-> np] :
               i \in ToolIndexes, np \in NotebookIds}
      [] tool = "insert_cell" ->
           {[cell_index |-> i, source |-> "x", cell_type |-> ty,
             notebook_path |-> np] :
               i \in ToolIndexes, ty \in {"code", "markdown", "raw"},
               np \in NotebookIds}
      [] tool = "update_cell" ->
           {[cell_index |-> i, source |-> "x", notebook_path |-> np] :
               i \in ToolIndexes, np \in NotebookIds}
      [] tool = "move_cell" ->
           {[from_index |-> i, to_index |-> j, notebook_path |-> np] :
               i \in ToolIndexes, j \in ToolIndexes, np \in NotebookIds}
      [] tool = "clear_outputs" ->
           {[cell_index |-> i, notebook_path |-> np] :
               i \in ToolIndexes, np \in NotebookIds}
           \cup {[notebook_path |-> np] : np \in NotebookIds}
      [] tool = "execute_code" ->
           {[code |-> "1/0", notebook_path |-> np] : np \in NotebookIds}
      [] tool = "get_notebook_content" ->
           {[path |-> pa] : pa \in {"", "a.ipynb"}}
      [] tool \in {"interrupt_kernel", "get_kernel_status",
                   "list_variables"} ->
           {[notebook_path |-> np] : np \in NotebookIds}
      [] OTHER -> {EmptyDict}

NonNegative(name, value) ==
    IF value < 0
    THEN name \o " must be non-negative, got " \o ToString(value)
    ELSE ""

\* the message of the check a tool makes before it builds its request, ""
\* when it makes none or the arguments pass
validation(tool, args) ==
    CASE tool \in {"get_cell", "update_cell", "delete_cell"} ->
           NonNegative("cell_index", args.cell_index)
      [] tool = "insert_cell" ->
           IF args.cell_index < 0
           THEN NonNegative("cell_index", args.cell_index)
           ELSE IF args.cell_type \notin {"code", "markdown"}
           THEN "cell_type must be 'code' or 'markdown', got '"
                    \o args.cell_type \o "'"
           ELSE ""
      [] tool = "move_cell" ->
           IF args.from_index < 0
           THEN NonNegative("from_index", args.from_index)
           ELSE NonNegative("to_index", args.to_index)
      [] tool = "get_notebook_content" ->
           IF args.path = "" THEN "Notebook path is required" ELSE ""
      [] OTHER -> ""

\* what the tool returns when that check fails
rejected(tool, message) ==
    IF tool = "get_notebook_content"
    THEN [error |-> message, path |-> PyNone, cells |-> <<>>]
    ELSE [error |-> message]

\* the arguments that become parameters of the request
ParamKeys(tool, args) ==
    (DOMAIN args) \ {"notebook_path"}

\* the request the tool hands to client.send_request
ToolRequest(action, notebook_id, params) ==
    [action |-> action, notebook_id |-> notebook_id, params |-> params]

NoToolRequest == ToolRequest("", None, EmptyDict)

request(tool, args) ==
    IF tool = "get_notebook_content"
    THEN ToolRequest(tool, Some(args.path), [path |-> args.path])
    ELSE IF tool \in {"list_notebooks", "get_active_notebook"}
    THEN ToolRequest(tool, None, EmptyDict)
    ELSE
    LET keys == ParamKeys(tool, args)
               \cup (IF args.notebook_path /= None THEN {"path"} ELSE {})
    IN  ToolRequest(tool, args.notebook_path,
                    [k \in keys |-> IF k = "path"
                                    THEN args.notebook_path[1]
                                    ELSE args[k]])

\* what the tool returns when send_request returned a response with data
shaped(tool, data) ==
    CASE tool = "get_cell" -> DictGet(data, "cell", EmptyDict)
      [] tool = "list_notebooks" -> DictGet(data, "notebooks", <<>>)
      [] tool \in {"execute_cell", "execute_code"} ->
           [outputs |-> DictGet(data, "outputs", <<>>),
            success |-> DictGet(data, "success", TRUE)]
      [] tool = "interrupt_kernel" ->
           [success |-> DictGet(data, "success", TRUE),
            kernel_id |-> DictGet(data, "kernel_id", PyNone)]
      [] tool = "get_kernel_status" ->
           [kernel_id |-> DictGet(data, "kernel_id", PyNone),
            execution_state |-> DictGet(data, "execution_state", "unknown"),
            is_alive |-> DictGet(data, "is_alive", FALSE)]
      [] tool = "list_variables" ->
           [variables |-> DictGet(data, "variables", EmptyDict)]
      [] tool = "get_cell_outputs" ->
           [outputs |-> DictGet(data, "outputs", <<>>),
            cell_type |-> DictGet(data, "cell_type", "unknown")]
      [] tool = "clear_outputs" ->
           [success |-> DictGet(data, "success", TRUE),
            cleared |-> DictGet(data, "cleared", PyNone)]
      [] OTHER -> data

\* what the tool's except clause returns for the exception message
failed(tool, args, message) ==
    CASE tool = "get_cell" -> [error |-> message]
      [] tool \in {"insert_cell", "update_cell", "delete_cell",
                   "move_cell"} ->
           [error |-> message, success |-> FALSE]
      [] tool = "list_notebooks" ->
           <<[error |-> message, notebooks |-> <<>>]>>
      [] tool = "get_active_notebook" ->
           [notebook |-> PyNone, is_fallback |-> FALSE, error |-> message]
      [] tool = "get_notebook_content" ->
           [error |-> message, path |-> args.path, cells |-> <<>>,
            metadata |-> EmptyDict]
      [] tool \in {"execute_cell", "execute_code"} ->
           [outputs |-> <<>>, success |-> FALSE, error |-> message]
      [] tool \in {"interrupt_kernel", "clear_outputs"} ->
           [success |-> FALSE, error |-> message]
      [] tool = "get_kernel_status" ->
           [kernel_id |-> PyNone, execution_state |-> "unknown",
            is_alive |-> FALSE, error |-> message]
      [] tool = "list_variables" ->
           [variables |-> EmptyDict, error |-> message]
      [] tool = "get_cell_outputs" ->
           [outputs |-> <<>>, cell_type |-> "unknown", error |-> message]

\* str(e) of the exception send_request raises for each way a call fails
StrOf(answer) ==
    CASE answer.kind = "UpstreamError" -> answer.payload
      [] answer.kind = "Timeout" -> "Request timed out"
      [] answer.kind = "ConnectionLost" -> "Connection lost"
      [] answer.kind = "LinkClosed" -> "Not connected to JupyterLab"

\* a tool that let the exception of send_request through
ToolRaised(answer) == [sent |-> TRUE, raised |-> answer.kind]

\* mutant: no try/except around send_request
await_request_NoCatch(tool, args, answer) ==
    IF answer.kind = "data"
    THEN ToolReturn(TRUE, shaped(tool, answer.payload))
    ELSE ToolRaised(answer)

\* the try/except around send_request of every tool
await_request(tool, args, answer) ==
    IF answer.kind = "data"
    THEN ToolReturn(TRUE, shaped(tool, answer.payload))
    ELSE ToolReturn(TRUE, failed(tool, args, StrOf(answer)))

\* one tool invocation: answer is how send_request ends if it is called
call_tool(tool, args, answer) ==
    IF validation(tool, args) /= ""
    THEN ToolReturn(FALSE, rejected(tool, validation(tool, args)))
    ELSE await_request(tool, args, answer)

\* the data a host may answer a tool's request with
DataOf(tool) ==
    {EmptyDict}
    \cup CASE tool = "get_cell" -> {[cell |-> CellView(0, CodeCell("a"))]}
           [] tool \in {"insert_cell", "update_cell", "delete_cell",
                        "move_cell"} ->
                {[success |-> TRUE, operation |-> OperationOf[tool],
                  cell_count |-> 1]}
           [] tool \in {"execute_cell", "execute_code"} ->
                {[outputs |-> <<"out">>, success |-> TRUE]}
           [] tool \in {"interrupt_kernel", "get_kernel_status"} ->
                {[success |-> TRUE, kernel_id |-> "k1",
                  execution_state |-> "idle", is_alive |-> TRUE]}
           [] tool = "clear_outputs" ->
                {[success |-> TRUE, cleared |-> "all"]}
           [] OTHER -> {}

\* the ways send_request may end for a tool: a response with data, or one of
\* the failures of the correlator
Answers(tool) ==
    {Data(d) : d \in DataOf(tool)}
    \cup {UpstreamError("Cell index 9 out of range"), Timeout,
          ConnectionLost, LinkClosed}

NoAnswer == [kind |-> "none", payload |-> ""]

NoToolCall ==
    [tool |-> "", args |-> EmptyDict, request |-> NoToolRequest,
     answer |-> NoAnswer, returned |-> ToolReturn(FALSE, EmptyDict)]

ToolIdle ==
    lastTool = NoToolCall

\* a tool is invoked and runs to its return
CallTool(tool) ==
    /\ \E args \in ToolArgs(tool) :
       \E answer \in (IF validation(tool, args) = ""
                      THEN Answers(tool) ELSE {NoAnswer}) :
         LET r == call_tool(tool, args, answer)
         IN  lastTool' = [tool |-> tool, args |-> args,
                          request |-> IF r.sent THEN request(tool, args)
                                      ELSE NoToolRequest,
                          answer |-> answer, returned |-> r]
    /\ UNCHANGED notTool

ToolNext ==
    \E tool \in Tools : CallTool(tool)

(* Claims about the tools *)

\* the tools that take a cell index, and the last invocation passing a
\* negative one
IndexTools ==
    {"get_cell", "insert_cell", "update_cell", "delete_cell", "move_cell",
     "execute_cell", "get_cell_outputs", "clear_outputs"}

NegativeIndex ==
    /\ lastTool.tool \in IndexTools
    /\ \E k \in {"cell_index", "from_index", "to_index"} :
         k \in DOMAIN lastTool.args /\ lastTool.args[k] < 0

\* C22: validation failures are resolved locally: for every tool that takes
\* a cell index, a negative index yields an error result without any
\* request being sent over the link.
C22_NegativeIndexLocal ==
    NegativeIndex
        => /\ ~lastTool.returned.sent
           /\ lastTool.request = NoToolRequest
           /\ "error" \in DOMAIN lastTool.returned.value

\* the error message a tool's result carries
ErrorOf(tool, value) ==
    IF tool = "list_notebooks" THEN value[1].error ELSE value.error

\* C23: every tool invocation returns a value: when send_request fails
\* (timeout, connection lost, upstream error, or a client that never
\* connected) the tool returns a structured result carrying the error
\* message and the exception does not reach the tool's caller.
C23_ToolsNeverRaise ==
    lastTool.answer.kind \in {"Timeout", "ConnectionLost", "UpstreamError",
                              "LinkClosed"}
        => /\ "raised" \notin DOMAIN lastTool.returned
           /\ ErrorOf(lastTool.tool, lastTool.returned.value)
                = StrOf(lastTool.answer)

C23_Witness ==
    /\ lastTool.tool = "list_notebooks"
    /\ lastTool.answer = LinkClosed
    /\ lastTool.returned.sent
    /\ ErrorOf(lastTool.tool, lastTool.returned.value)
         = "Not connected to JupyterLab"

----------------------------------------------------------------------------
(* server.py: run_server.  The steps are its statements in order; a tool    *)
(* is served while server.run is awaited.                                   *)

\* the tools each register function defines
NotebookTools ==
    {"list_notebooks", "get_active_notebook", "get_notebook_content"}

CellTools ==
    {"get_cell", "insert_cell", "update_cell", "delete_cell", "move_cell"}

KernelTools ==
    {"execute_cell", "execute_code", "interrupt_kernel", "get_kernel_status",
     "list_variables", "get_cell_outputs", "clear_outputs"}

NotStarted ==
    [pc |-> "get_client", client |-> "none", registered |-> {},
     ended |-> "none", closed |-> FALSE]

ServerIdle == server = NotStarted

\* lines 38-44: get_client() returns a connected client, or raises and an
\* unconnected JupyterLabClient() is made in its place
get_client(s, connects) ==
    [s EXCEPT !.client = IF connects THEN "connected" ELSE "unconnected",
              !.pc = "register_notebook_tools"]

\* lines 47-49: the three register calls, one after the other
register(s, tools, then) ==
    [s EXCEPT !.registered = @ \cup tools, !.pc = then]

\* mutant: no finally, so an exception leaves run_server at once
serving_ends_NoFinally(s, how) ==
    IF how = "exception"
    THEN [s EXCEPT !.pc = "stopped", !.ended = how]
    ELSE [s EXCEPT !.pc = "finally", !.ended = how]

\* lines 53-57: the try block is left, by its end or by an exception of
\* stdio_server() or server.run(), and the finally clause is entered
serving_ends(s, how) ==
    [s EXCEPT !.pc = "finally", !.ended = how]

\* line 57: await close_client()
close_client(s) ==
    [s EXCEPT !.pc = "stopped", !.closed = TRUE]

GetClient ==
    /\ server.pc = "get_client"
    /\ \E connects \in BOOLEAN : server' = get_client(server, connects)
    /\ UNCHANGED notSrv
    /\ UNCHANGED toolVars

RegisterNotebookTools ==
    /\ server.pc = "register_notebook_tools"
    /\ server' = register(server, NotebookTools, "register_cell_tools")
    /\ UNCHANGED notSrv
    /\ UNCHANGED toolVars

RegisterCellTools ==
    /\ server.pc = "register_cell_tools"
    /\ server' = register(server, CellTools, "register_kernel_tools")
    /\ UNCHANGED notSrv
    /\ UNCHANGED toolVars

RegisterKernelTools ==
    /\ server.pc = "register_kernel_tools"
    /\ server' = register(server, KernelTools, "stdio_server")
    /\ UNCHANGED notSrv
    /\ UNCHANGED toolVars

\* line 54: stdio_server() is entered, or raises
EnterStdio ==
    /\ server.pc = "stdio_server"
    /\ \/ server' = [server EXCEPT !.pc = "run"]
       \/ server' = serving_ends(server, "exception")
    /\ UNCHANGED notSrv
    /\ UNCHANGED toolVars

\* line 55, server.run(): a registered tool is called
ServeTool ==
    /\ server.pc = "run"
    /\ \E tool \in server.registered : CallTool(tool)

\* line 55, server.run() returns (the streams closed) or raises
ServingEnds ==
    /\ server.pc = "run"
    /\ \E how \in {"normal", "exception"} :
         server' = serving_ends(server, how)
    /\ UNCHANGED notSrv
    /\ UNCHANGED toolVars

CloseClient ==
    /\ server.pc = "finally"
    /\ server' = close_client(server)
    /\ UNCHANGED notSrv
    /\ UNCHANGED toolVars

ServerNext ==
    \/ GetClient
    \/ RegisterNotebookTools
    \/ RegisterCellTools
    \/ RegisterKernelTools
    \/ EnterStdio
    \/ ServeTool
    \/ ServingEnds
    \/ CloseClient

(* Claims about run_server *)

\* C36: run_server registers all notebook, cell and kernel tools and goes on
\* to serve whether or not the first connection succeeded, and close_client
\* is called whenever serving ends, by return or by exception: no step
\* before the end is stuck, serving has every tool, and once serving has
\* ended close_client has been called or is the step to come.
C36_ServesAndCloses ==
    /\ server.pc /= "stopped" => ENABLED ServerNext
    /\ server.pc \in {"stdio_server", "run", "finally", "stopped"}
          => /\ server.registered = Tools
             /\ server.client \in {"connected", "unconnected"}
    /\ server.pc = "run" => \A tool \in Tools : ENABLED CallTool(tool)
    /\ server.ended /= "none"
          => \/ server.closed
             \/ server.pc = "finally" /\ ENABLED CloseClient
    /\ server.pc = "stopped" => server.closed /\ server.ended /= "none"

\* a tool was served by a server whose connection had failed, serving ended
\* with an exception and the client was closed
C36_Witness ==
    /\ server.pc = "stopped"
    /\ server.client = "unconnected"
    /\ server.ended = "exception"
    /\ server.closed
    /\ lastTool /= NoToolCall
    /\ lastTool.returned.sent

----------------------------------------------------------------------------
(* The cell tools against the bridge: a tool's request is handled by the   *)
(* host and the envelope it writes resolves the tool's send_request.        *)

\* get_active_notebook, lines 72-78: the first notebook with a session
ActiveNotebook == "a.ipynb"

MutationTools == {"insert_cell", "update_cell", "delete_cell", "move_cell"}

\* the insert_cell, update_cell, delete_cell or move_cell tool is called
ToolMutate ==
    /\ made < MaxOps
    /\ made' = made + 1
    /\ \E tool \in MutationTools :
       \E args \in ToolArgs(tool) :
         IF validation(tool, args) /= ""
         THEN /\ lastCall' = [NoCellCall EXCEPT
                     !.via = "tool", !.action = tool, !.before = store,
                     !.returned = call_tool(tool, args, NoAnswer)]
              /\ UNCHANGED store
         ELSE LET req == request(tool, args)
                  h == modify_notebook(store, req.action, req.params,
                                       req.notebook_id)
              IN  /\ store' = h.store
                  /\ lastCall' = [NoCellCall EXCEPT
                         !.via = "tool", !.action = tool,
                         !.params = req.params,
                         !.notebook_id = req.notebook_id,
                         !.before = store, !.outcome = h.outcome,
                         !.returned =
                             call_tool(tool, args,
                                       send_request(req.action, h.outcome))]
    /\ UNCHANGED <<calls, begun, initialCells, insertsDone, othersDone>>
    /\ UNCHANGED notCell

----------------------------------------------------------------------------
(* yjs_bridge.py: the handlers that only read *)

ReadOnlyActions ==
    {"list_notebooks", "get_active_notebook", "get_notebook_content",
     "get_cell", "get_cell_outputs", "get_kernel_status"}

\* what session_manager.list_sessions() gives: nothing, or the session of
\* the open notebook
OpenSessions ==
    <<[type |-> "notebook", path |-> ActiveNotebook, name |-> ActiveNotebook,
       kernel |-> [id |-> "k1", name |-> "python3"]]>>

\* the services a read looks at: the sessions and the kernel's state
Services ==
    {[sessions |-> ss, execution_state |-> es] :
        ss \in {<<>>, OpenSessions}, es \in {"idle", "busy"}}

\* list_notebooks(_params, _notebook_id)
list_notebooks(services) ==
    Return([notebooks |->
              [i \in 1..Len(services.sessions) |->
                  [path |-> services.sessions[i].path,
                   name |-> services.sessions[i].name,
                   kernel_id |-> services.sessions[i].kernel.id,
                   kernel_name |-> services.sessions[i].kernel.name]]])

\* get_active_notebook(params, notebook_id)
get_active_notebook(services) ==
    LET notebooks == list_notebooks(services).value.v.notebooks
    IN  IF notebooks /= <<>>
        THEN Return([notebook |-> Some(notebooks[1]), is_fallback |-> TRUE])
        ELSE Return([notebook |-> None, is_fallback |-> FALSE])

\* get_cell_outputs(params, notebook_id)
get_cell_outputs(st, params, notebook_id) ==
    LET cell_data == get_cell(st, params, notebook_id)
    IN  IF cell_data.kind = "raise"
        THEN cell_data
        ELSE Return([outputs |-> cell_data.value.v.cell.outputs,
                     cell_type |-> cell_data.value.v.cell.cell_type])

\* get_kernel_status(params, notebook_id) with both managers
get_kernel_status(params, notebook_id, services) ==
    LET path == PathOf(params, notebook_id)
        found == {i \in 1..Len(services.sessions) :
                     Some(services.sessions[i].path) = path}
    IN  IF found /= {}
        THEN Return([kernel_id |-> services.sessions[CHOOSE i \in found :
                                      \A j \in found : i <= j].kernel.id,
                     execution_state |-> services.execution_state,
                     is_alive |-> TRUE])
        ELSE Raise(Exc("RuntimeError",
                       "No kernel found for notebook: "
                           \o (IF path = None THEN "None" ELSE path[1])))

\* mutant: get_notebook_content writes the cells back as it returned them
read_only_SavesView(st, action, params, notebook_id, services) ==
    LET content == get_notebook_content(st, params, notebook_id)
    IN  IF action = "get_notebook_content" /\ content.kind = "return"
        THEN Handled([st EXCEPT ![content.value.v.path] =
                         [i \in 1..Len(content.value.v.cells) |->
                             [cell_type |-> content.value.v.cells[i].cell_type,
                              source |-> content.value.v.cells[i].source,
                              metadata |-> content.value.v.cells[i].metadata,
                              outputs |-> content.value.v.cells[i].outputs]]],
                     content)
        ELSE Handled(st,
                CASE action = "list_notebooks" -> list_notebooks(services)
                  [] action = "get_active_notebook" ->
                       get_active_notebook(services)
                  [] action = "get_notebook_content" -> content
                  [] action = "get_cell" -> get_cell(st, params, notebook_id)
                  [] action = "get_cell_outputs" ->
                       get_cell_outputs(st, params, notebook_id)
                  [] action = "get_kernel_status" ->
                       get_kernel_status(params, notebook_id, services))

\* a read-only handler run to the end: the store it leaves and what it
\* returns or raises; none of them calls contents_manager.save
read_only(st, action, params, notebook_id, services) ==
    Handled(st,
        CASE action = "list_notebooks" -> list_notebooks(services)
          [] action = "get_active_notebook" -> get_active_notebook(services)
          [] action = "get_notebook_content" ->
               get_notebook_content(st, params, notebook_id)
          [] action = "get_cell" -> get_cell(st, params, notebook_id)
          [] action = "get_cell_outputs" ->
               get_cell_outputs(st, params, notebook_id)
          [] action = "get_kernel_status" ->
               get_kernel_status(params, notebook_id, services))

\* the services at rest, for the handlers that do not look at them
Quiet == [sessions |-> OpenSessions, execution_state |-> "idle"]

\* the reads a call may ask for, each with the inputs its handler looks at
ReadRequests ==
    {[action |-> a, params |-> <<>>, services |-> sv] :
        a \in {"list_notebooks", "get_active_notebook"},
        sv \in {x \in Services : x.execution_state = "idle"}}
    \cup {[action |-> "get_kernel_status", params |-> pa, services |-> sv] :
             pa \in {<<>>, [path |-> ActiveNotebook]}, sv \in Services}
    \cup {[action |-> "get_notebook_content", params |-> pa,
            services |-> Quiet] : pa \in {<<>>, [path |-> ActiveNotebook]}}
    \cup {[action |-> a, params |-> pa, services |-> Quiet] :
             a \in {"get_cell", "get_cell_outputs"}, pa \in GetCellParams}

\* one of the read-only handlers is called
ReadOnly ==
    /\ made < MaxOps
    /\ made' = made + 1
    /\ \E req \in ReadRequests, nid \in NotebookIds :
         LET h == read_only(store, req.action, req.params, nid, req.services)
         IN  /\ store' = h.store
             /\ lastCall' = [NoCellCall EXCEPT
                    !.via = "bridge", !.action = req.action,
                    !.params = req.params, !.notebook_id = nid,
                    !.before = store, !.outcome = h.outcome]
    /\ UNCHANGED <<calls, begun, initialCells, insertsDone, othersDone>>
    /\ UNCHANGED notCell

CellNext ==
    \/ Mutate
    \/ GetCell
    \/ ToolGetCell
    \/ ToolMutate
    \/ ClearOutputs
    \/ ReadOnly

(* Claims about cell operations *)

\* the path a call named, and the cells stored under it before the call
CallPath == PathOf(lastCall.params, lastCall.notebook_id)
CellsBefore == lastCall.before[CallPath[1]]
CellsAfter == store[CallPath[1]]

\* the last call was get_cell, on a notebook that exists, with an index
\* outside [0, len(cells))
GetCellOutside ==
    /\ lastCall.action = "get_cell"
    /\ "cell_index" \in DOMAIN lastCall.params
    /\ CallPath /= None
    /\ \/ lastCall.params.cell_index < 0
       \/ lastCall.params.cell_index >= Len(CellsBefore)

NotFound == OutOfRange(lastCall.params.cell_index, Len(CellsBefore))

\* C18 as stated: get_cell with a cell_index outside [0, len(cells)) always
\* fails with the not-found (index out of range) error, for every such
\* index, negative or too large, and never with a different kind of error.
C18_AlwaysNotFound ==
    GetCellOutside =>
        /\ lastCall.via = "bridge" => lastCall.outcome = Raise(NotFound)
        /\ lastCall.via = "tool"
              => lastCall.returned.value = [error |-> NotFound.msg]

\* C18 as amended: the get_cell action of the bridge fails with the
\* not-found error for every index outside [0, len(cells)), negative or too
\* large; the get_cell tool returns that error for every index that is too
\* large, and answers a negative index with its own validation error
\* without sending a request.
C18_NotFoundPastValidation ==
    GetCellOutside =>
        /\ lastCall.via = "bridge" => lastCall.outcome = Raise(NotFound)
        /\ (lastCall.via = "tool" /\ lastCall.params.cell_index >= 0)
              => lastCall.returned = ToolReturn(TRUE, [error |-> NotFound.msg])
        /\ (lastCall.via = "tool" /\ lastCall.params.cell_index < 0)
              => /\ ~lastCall.returned.sent
                 /\ DOMAIN lastCall.returned.value = {"error"}
                 /\ lastCall.returned.value.error /= NotFound.msg

C18_Witness ==
    /\ GetCellOutside
    /\ lastCall.via = "bridge"
    /\ lastCall.params.cell_index = 0 - 1
    /\ Len(CellsBefore) = 2
    /\ lastCall.outcome.exc.type = "IndexError"

\* C19: for every notebook and every k in [0, len(cells)),
\* move_cell(from_index=k, to_index=k) leaves the stored cell sequence
\* identical to the one before the call.
C19_MoveToSamePlace ==
    (/\ lastCall.action = "move_cell"
     /\ CallPath /= None
     /\ {"from_index", "to_index"} \subseteq DOMAIN lastCall.params
     /\ lastCall.params.from_index = lastCall.params.to_index
     /\ lastCall.params.from_index \in 0..(Len(CellsBefore) - 1))
        => /\ lastCall.outcome.kind = "return"
           /\ store = lastCall.before

C19_Witness ==
    /\ lastCall.action = "move_cell"
    /\ CallPath /= None
    /\ lastCall.params = [from_index |-> 1, to_index |-> 1]
    /\ Len(CellsBefore) = 3
    /\ CellsBefore[1] /= CellsBefore[2]
    /\ CellsBefore[2] /= CellsBefore[3]
    /\ lastCall.outcome.kind = "return"

\* C20: insert_cell with cell_index = len(cells) places the new cell last
\* and insert_cell with cell_index = 0 places it first; in both cases the
\* cells that were there keep their relative order.
C20_InsertAtEnds ==
    (/\ lastCall.action = "insert_cell"
     /\ CallPath /= None
     /\ "cell_index" \in DOMAIN lastCall.params)
        => LET new == NewCell(lastCall.params.cell_type,
                              lastCall.params.source)
           IN  /\ lastCall.params.cell_index = Len(CellsBefore)
                     => /\ lastCall.outcome.kind = "return"
                        /\ CellsAfter = CellsBefore \o <<new>>
               /\ lastCall.params.cell_index = 0
                     => /\ lastCall.outcome.kind = "return"
                        /\ CellsAfter = <<new>> \o CellsBefore

C20_Witness ==
    /\ lastCall.action = "insert_cell"
    /\ CallPath /= None
    /\ "cell_index" \in DOMAIN lastCall.params
    /\ lastCall.params.cell_index = 0
    /\ Len(CellsBefore) = 2
    /\ CellsBefore[1] /= CellsBefore[2]
    /\ Len(CellsAfter) = 3
    /\ lastCall.outcome.kind = "return"

\* C21: after a successful move_cell(from_index, to_index) the moved cell is
\* at index to_index of the stored notebook, for every accepted pair of
\* indices, and the other cells keep their relative order.
C21_MovedCellAtToIndex ==
    (/\ lastCall.action = "move_cell"
     /\ lastCall.via = "bridge"
     /\ lastCall.outcome.kind = "return")
        => /\ lastCall.params.to_index < Len(CellsAfter)
           /\ CellsAfter[lastCall.params.to_index + 1]
                = CellsBefore[lastCall.params.from_index + 1]
           /\ ListDelete(CellsAfter, lastCall.params.to_index)
                = ListDelete(CellsBefore, lastCall.params.from_index)

\* the change in the number of cells each operation makes
CountChange ==
    [a \in MutationTools |->
        CASE a = "insert_cell" -> 1
          [] a = "delete_cell" -> 0 - 1
          [] OTHER -> 0]

\* C30: a successful insert_cell, update_cell, delete_cell or move_cell
\* returns as cell_count the number of cells of the saved notebook, which is
\* the previous number plus one for insert, minus one for delete and the same
\* for update and move; delete removes the cell at cell_index and leaves the
\* others in their order.
C30_CellCountIsSavedCount ==
    (/\ lastCall.action \in MutationTools
     /\ lastCall.outcome.kind = "return")
        => /\ lastCall.outcome.value.v.cell_count = Len(CellsAfter)
           /\ Len(CellsAfter)
                = Len(CellsBefore) + CountChange[lastCall.action]
           /\ lastCall.action = "delete_cell"
                => \A i \in 1..Len(CellsAfter) :
                      CellsAfter[i] =
                          IF i <= lastCall.params.cell_index
                          THEN CellsBefore[i]
                          ELSE CellsBefore[i + 1]

\* the middle one of three cells was deleted
C30_Witness ==
    /\ lastCall.action = "delete_cell"
    /\ lastCall.outcome.kind = "return"
    /\ lastCall.params.cell_index = 1
    /\ Len(CellsBefore) = 3
    /\ lastCall.outcome.value.v.cell_count = 2
    /\ CellsAfter = <<CellsBefore[1], CellsBefore[3]>>
    /\ CellsBefore[1] /= CellsBefore[3]

\* C31: update_cell changes the source of the cell at cell_index and nothing
\* else: that cell keeps its type, metadata and every other key, and all
\* other cells are where and what they were.
C31_UpdateChangesSourceOnly ==
    (/\ lastCall.action = "update_cell"
     /\ lastCall.outcome.kind = "return")
        => /\ Len(CellsAfter) = Len(CellsBefore)
           /\ \A i \in 1..Len(CellsBefore) :
                 IF i = lastCall.params.cell_index + 1
                 THEN /\ CellsAfter[i].source = lastCall.params.source
                      /\ DOMAIN CellsAfter[i] = DOMAIN CellsBefore[i]
                      /\ \A k \in DOMAIN CellsBefore[i] \ {"source"} :
                            CellsAfter[i][k] = CellsBefore[i][k]
                 ELSE CellsAfter[i] = CellsBefore[i]

\* the markdown cell after a code cell was given a new source
C31_Witness ==
    /\ lastCall.action = "update_cell"
    /\ lastCall.outcome.kind = "return"
    /\ lastCall.params.cell_index = 1
    /\ Len(CellsBefore) = 2
    /\ CellsBefore[2].cell_type = "markdown"
    /\ CellsBefore[2].source /= lastCall.params.source
    /\ CellsAfter[2].cell_type = "markdown"
    /\ CellsAfter[2].source = lastCall.params.source

\* the cell is a code cell with no outputs and no execution count
IsCleared(cell) ==
    cell.cell_type = "code"
        => cell.outputs = <<>> /\ cell.execution_count = "None"

\* the keys clear_outputs may write
OutputKeys == {"outputs", "execution_count"}

\* C32: clear_outputs with a cell_index resets outputs and execution count
\* of that cell only, and without one resets them for every code cell; the
\* number, order, type and source of the cells are unchanged and the
\* response's cleared field is the index given, or "all".
C32_ClearOutputsOnly ==
    (/\ lastCall.action = "clear_outputs"
     /\ lastCall.outcome.kind = "return")
        => /\ Len(CellsAfter) = Len(CellsBefore)
           /\ \A i \in 1..Len(CellsBefore) :
                 /\ DOMAIN CellsAfter[i] = DOMAIN CellsBefore[i]
                 /\ \A k \in DOMAIN CellsBefore[i] \ OutputKeys :
                       CellsAfter[i][k] = CellsBefore[i][k]
           /\ IF "cell_index" \in DOMAIN lastCall.params
              THEN /\ lastCall.outcome.value.v.cleared
                        = JNum(ToString(lastCall.params.cell_index))
                   /\ IsCleared(CellsAfter[lastCall.params.cell_index + 1])
                   /\ \A i \in 1..Len(CellsBefore) :
                         i /= lastCall.params.cell_index + 1
                             => CellsAfter[i] = CellsBefore[i]
              ELSE /\ lastCall.outcome.value.v.cleared = JStr("all")
                   /\ \A i \in 1..Len(CellsBefore) :
                         IsCleared(CellsAfter[i])

\* the first of two cells, a code cell with outputs, was cleared
C32_Witness ==
    /\ lastCall.action = "clear_outputs"
    /\ lastCall.outcome.kind = "return"
    /\ "cell_index" \in DOMAIN lastCall.params
    /\ lastCall.params.cell_index = 0
    /\ Len(CellsBefore) = 2
    /\ CellsBefore[1].cell_type = "code"
    /\ CellsBefore[1].outputs /= <<>>
    /\ CellsAfter[1].outputs = <<>>
    /\ CellsAfter[1].execution_count = "None"
    /\ CellsAfter[2] = CellsBefore[2]

\* the last call was a mutation that failed: the bridge raised, or the tool
\* rejected the arguments without sending
FailedMutation ==
    /\ lastCall.action \in MutationTools \cup {"clear_outputs"}
    /\ \/ lastCall.outcome.kind = "raise"
       \/ lastCall.via = "tool" /\ ~lastCall.returned.sent

\* C33: a mutation that fails, by an index out of range or a missing
\* parameter, saves nothing: the store is what it was before the call.
C33_FailedMutationSavesNothing ==
    FailedMutation => store = lastCall.before

\* an update with an index past the end of a two-cell notebook failed
C33_Witness ==
    /\ lastCall.action = "update_cell"
    /\ lastCall.outcome.kind = "raise"
    /\ lastCall.outcome.exc.type = "IndexError"
    /\ Len(CellsBefore) = 2
    /\ lastCall.params.cell_index = 2
    /\ store = lastCall.before

\* C34: list_notebooks, get_active_notebook, get_notebook_content, get_cell,
\* get_cell_outputs and get_kernel_status never save: whatever they return
\* or raise, the store after the call is the store before it.
C34_ReadOnlyNeverSaves ==
    lastCall.action \in ReadOnlyActions => store = lastCall.before

\* the content of a notebook with a cleared code cell was read
C34_Witness ==
    /\ lastCall.action = "get_notebook_content"
    /\ lastCall.outcome.kind = "return"
    /\ Len(lastCall.outcome.value.v.cells) = 2
    /\ lastCall.before[ActiveNotebook][1].execution_count = "None"
    /\ store = lastCall.before

\* C24: when a cell or kernel tool is called without notebook_path, the
\* operation is applied to the currently active notebook rather than
\* failing.
C24_ActiveNotebookByDefault ==
    (/\ lastCall.via = "tool"
     /\ lastCall.action \in MutationTools
     /\ lastCall.returned.sent
     /\ lastCall.notebook_id = None)
        => LET m == perform(lastCall.before[ActiveNotebook],
                            OperationOf[lastCall.action],
                            Kwargs(lastCall.action, lastCall.params))
           IN  m.ok => /\ lastCall.outcome.kind = "return"
                       /\ store[ActiveNotebook] = m.cells

----------------------------------------------------------------------------
(* Specifications *)

\* the host dispatcher: connections open and close, frames arrive
Init ==
    DispInit /\ CorrIdle /\ NbIdle /\ ExIdle /\ CellIdle /\ ServeIdle
        /\ ToolIdle /\ ServerIdle

Next ==
    \/ \E c \in Conns : Open(c)
    \/ \E c \in Conns : OnClose(c)
    \/ \E c \in Conns : OnMessage(c)
    \/ StatusGet

Spec == Init /\ [][Next]_vars

\* the tool process: calls, responses, deadlines and link loss interleave
CorrInit ==
    DispInit /\ CorrIdle /\ NbIdle /\ ExIdle /\ CellIdle /\ ServeIdle
        /\ ToolIdle /\ ServerIdle

SpecCorrelator == CorrInit /\ [][CorrNext]_vars

\* the bridge called from several threads: reads and saves interleave
NotebookInit ==
    DispInit /\ CorrIdle /\ NbInit /\ ExIdle /\ CellIdle /\ ServeIdle
        /\ ToolIdle /\ ServerIdle

SpecNotebook == NotebookInit /\ [][NbNext]_vars

\* the bridge and the cell tools called one call at a time
SpecCells == NotebookInit /\ [][CellNext]_vars

\* one execute_code call and the messages its kernel publishes
ExecInit ==
    DispInit /\ CorrIdle /\ NbIdle /\ ExIdle /\ CellIdle /\ ServeIdle
        /\ ToolIdle /\ ServerIdle

SpecExec == ExecInit /\ [][ExNext]_vars

\* the same with a handler that keeps running: execute_code is never
\* suspended for good between two statements
SpecExecFair == SpecExec /\ WF_vars(ExNext)

\* the IO loop of the host: requests arrive, are dispatched and answered
ServeInit ==
    DispInit /\ CorrIdle /\ NbIdle /\ ExIdle /\ CellIdle /\ ServeIdle
        /\ ToolIdle /\ ServerIdle

SpecServe == ServeInit /\ [][ServeNext]_vars

\* the tools invoked one after the other over a link that answers or fails
ToolInit ==
    DispInit /\ CorrIdle /\ NbIdle /\ ExIdle /\ CellIdle /\ ServeIdle
        /\ ToolIdle /\ ServerIdle

SpecTools == ToolInit /\ [][ToolNext]_vars

\* run_server from its first statement to its last
ServerInit ==
    DispInit /\ CorrIdle /\ NbIdle /\ ExIdle /\ CellIdle /\ ServeIdle
        /\ ToolIdle /\ ServerIdle

SpecServer == ServerInit /\ [][ServerNext]_vars

\* the same with timers that do fire: a deadline that has elapsed is acted on
SpecCorrelatorFair ==
    SpecCorrelator /\ \A id \in Ids : WF_vars(DeadlineElapsed(id))

====
